---- MODULE Spec2Model ----
(***************************************************************************)
(* Model of the AI-response normalization layer of InversIA                *)
(* (src/services/geminiService.ts): the JSON repair scanner, the payload   *)
(* extractor, the parse pipeline, the error classifier and the request     *)
(* facade.                                                                 *)
(*                                                                         *)
(* Texts are sequences of one-character strings.  Parsed JSON values are   *)
(* tagged records [t |-> tag, v |-> payload].  Error messages are          *)
(* sequences of message fragments (tokens).                                *)
(***************************************************************************)
EXTENDS Integers, Sequences, FiniteSets, TLC

VARIABLES
    text,       \* parse pipeline: the response text handed to the pipeline
    label,      \* parse pipeline: the functionName argument
    pstage,     \* parse pipeline: position in cleanAndParseJson / safeJsonParse
    jsonText,   \* parse pipeline: the extractor's output
    presult,    \* parse pipeline: outcome of safeJsonParse
    plog,       \* parse pipeline: steps taken, in order
    caught,     \* classifier: the caught value (an object whose message may be mutated)
    cargs,      \* classifier: defaultMessage and model of the last call
    cres,       \* classifier: outcome of the last handleGeminiError call
    kinds,      \* classifier: kinds returned for `caught` so far, in call order
    ai,         \* facade: the module-level client (geminiService.ts line 4)
    inv,        \* facade: the invocations, one record per slot
    nvalue,     \* numeric sanitizer: the value first given to parseNumeric
    nres,       \* numeric sanitizer: the results of the successive applications
    mview,      \* market view: analysisState (isLoading, results, error, openSectors)
    mcalls,     \* market view: the analyzeMarketSector calls of the current fan-out
    mreports,   \* market view: the onApiError calls made, in order
    musage,     \* market view: the onTokenUsage calls made, in order
    mrun,       \* market view: where handleAnalyze stands, and the engine it closed over
    app,        \* application: isQuotaExhausted, error, activeView, tokenUsageHistory,
                \* and the isLoadingPrices and isImporting of its portfolio and settings views
    acalls,     \* application: the facade calls its handlers have made, one record each
    session,    \* analysis view: the active session (isAnalyzingAll, analysisVectors)
    scan        \* repair scanner: the loop index and the loop's variables

vars ==
    <<text, label, pstage, jsonText, presult, plog, caught, cargs, cres, kinds, ai, inv,
      nvalue, nres, mview, mcalls, mreports, musage, mrun,
      app, acalls, session, scan>>
parseVars == <<text, label, pstage, jsonText, presult, plog, scan>>
classVars == <<caught, cargs, cres, kinds>>
facadeVars == <<ai, inv>>
numVars == <<nvalue, nres>>
marketVars == <<mview, mcalls, mreports, musage, mrun>>
appVars == <<app, acalls, session>>

(***************************************************************************)
(* Characters and strings                                                  *)
(***************************************************************************)
QUOTE == "\""
BSLASH == "\\"
LF == "\n"
CR == "\r"
TAB == "\t"

\* String.prototype.trim and the regular expression class \s, over the
\* characters the model uses.
IsSpace(c) == c \in {" ", LF, CR, TAB}

\* Characters JSON.parse rejects raw inside a string literal (U+0000..U+001F).
IsControl(c) == c \in {LF, CR, TAB}

IsDigit(c) == c \in {"0", "1", "2", "3", "4", "5", "6", "7", "8", "9"}

DigitVal(c) ==
    CASE c = "0" -> 0 [] c = "1" -> 1 [] c = "2" -> 2 [] c = "3" -> 3
      [] c = "4" -> 4 [] c = "5" -> 5 [] c = "6" -> 6 [] c = "7" -> 7
      [] c = "8" -> 8 [] c = "9" -> 9

RECURSIVE Pow10(_)
Pow10(n) == IF n = 0 THEN 1 ELSE 10 * Pow10(n - 1)

RECURSIVE Flatten(_)
Flatten(ss) == IF ss = <<>> THEN <<>> ELSE Head(ss) \o Flatten(Tail(ss))

RECURSIVE TrimStart(_)
TrimStart(s) == IF s # <<>> /\ IsSpace(Head(s)) THEN TrimStart(Tail(s)) ELSE s

RECURSIVE TrimEnd(_)
TrimEnd(s) ==
    IF s # <<>> /\ IsSpace(s[Len(s)]) THEN TrimEnd(SubSeq(s, 1, Len(s) - 1)) ELSE s

Trim(s) == TrimEnd(TrimStart(s))

StartsWith(s, p) == Len(s) >= Len(p) /\ SubSeq(s, 1, Len(p)) = p
EndsWith(s, p) == Len(s) >= Len(p) /\ SubSeq(s, Len(s) - Len(p) + 1, Len(s)) = p

\* String.prototype.indexOf / lastIndexOf for one character: 0-based, -1 when absent.
IndexOf(s, c) ==
    IF \E i \in 1..Len(s) : s[i] = c
    THEN (CHOOSE i \in 1..Len(s) : s[i] = c /\ \A j \in 1..(i - 1) : s[j] # c) - 1
    ELSE -1

LastIndexOf(s, c) ==
    IF \E i \in 1..Len(s) : s[i] = c
    THEN (CHOOSE i \in 1..Len(s) : s[i] = c /\ \A j \in (i + 1)..Len(s) : s[j] # c) - 1
    ELSE -1

\* String.prototype.substring(a, b) for 0 <= a <= b <= length (0-based, b exclusive).
Substring(s, a, b) == SubSeq(s, a + 1, b)

\* Op applied to the value x: a local name for a value that is used several times.
Bind(x, Op(_)) == Op(x)

Min(a, b) == IF a <= b THEN a ELSE b
Max(a, b) == IF a >= b THEN a ELSE b

(***************************************************************************)
(* JSON.parse                                                              *)
(*                                                                         *)
(* A recursive-descent reading of the JSON grammar.  Values:               *)
(*   [t |-> "null"|"true"|"false", v |-> <<>>]                             *)
(*   [t |-> "num", v |-> <<m, e>>]   the number m / 10^e, normalised       *)
(*   [t |-> "str", v |-> chars]      escapes decoded                       *)
(*   [t |-> "arr", v |-> values]                                           *)
(*   [t |-> "obj", v |-> members]    members [k |-> chars, v |-> value],   *)
(*                                   in insertion order, last value wins   *)
(* The exponent form of numbers and \uXXXX escapes are not read: no input  *)
(* of the model contains them.                                             *)
(***************************************************************************)
PFail == [ok |-> FALSE]
POk(val, next) == [ok |-> TRUE, val |-> val, next |-> next]

JNull == [t |-> "null", v |-> <<>>]
JTrue == [t |-> "true", v |-> <<>>]
JFalse == [t |-> "false", v |-> <<>>]
JStr(chars) == [t |-> "str", v |-> chars]
JArr(vals) == [t |-> "arr", v |-> vals]
JObj(members) == [t |-> "obj", v |-> members]

RECURSIVE NormNum(_, _)
NormNum(m, e) ==
    IF m = 0 THEN <<0, 0>>
    ELSE IF e > 0 /\ m % 10 = 0 THEN NormNum(m \div 10, e - 1)
    ELSE <<m, e>>

JNum(m, e) == [t |-> "num", v |-> NormNum(m, e)]

RECURSIVE SkipWs(_, _)
SkipWs(s, i) == IF i <= Len(s) /\ IsSpace(s[i]) THEN SkipWs(s, i + 1) ELSE i

IsEscapeChar(c) == c \in {QUOTE, BSLASH, "/", "b", "f", "n", "r", "t"}

Unescape(c) ==
    CASE c = "n" -> LF
      [] c = "r" -> CR
      [] c = "t" -> TAB
      [] c = "b" -> "BS"
      [] c = "f" -> "\f"
      [] OTHER -> c

\* The body of a string literal, from the character after the opening quote.
RECURSIVE StrBody(_, _, _)
StrBody(s, i, acc) ==
    CASE i > Len(s) -> PFail
      [] i <= Len(s) /\ s[i] = QUOTE -> POk(acc, i + 1)
      [] i <= Len(s) /\ s[i] = BSLASH /\ i + 1 <= Len(s) /\ IsEscapeChar(s[i + 1]) ->
           StrBody(s, i + 2, Append(acc, Unescape(s[i + 1])))
      [] i <= Len(s) /\ s[i] \notin {QUOTE, BSLASH} /\ ~IsControl(s[i]) ->
           StrBody(s, i + 1, Append(acc, s[i]))
      [] OTHER -> PFail

RECURSIVE Digits(_, _, _, _)
\* Reads digits from i: [n |-> value so far, k |-> digits read, next |-> index after].
Digits(s, i, n, k) ==
    IF i <= Len(s) /\ IsDigit(s[i])
    THEN Digits(s, i + 1, 10 * n + DigitVal(s[i]), k + 1)
    ELSE [n |-> n, k |-> k, next |-> i]

\* -?(0|[1-9][0-9]*)(\.[0-9]+)?
ParseNumber(s, i) ==
    LET neg == s[i] = "-"
        j == IF neg THEN i + 1 ELSE i
        ip == Digits(s, j, 0, 0)
        leadingZero == ip.k > 1 /\ s[j] = "0"
        hasFrac == ip.next <= Len(s) /\ s[ip.next] = "."
        fp == Digits(s, ip.next + 1, 0, 0)
        sign == IF neg THEN -1 ELSE 1
    IN  IF ip.k = 0 \/ leadingZero THEN PFail
        ELSE IF ~hasFrac THEN POk(JNum(sign * ip.n, 0), ip.next)
        ELSE IF fp.k = 0 THEN PFail
        ELSE POk(JNum(sign * (ip.n * Pow10(fp.k) + fp.n), fp.k), fp.next)

StartsWithAt(s, i, p) == i + Len(p) - 1 <= Len(s) /\ SubSeq(s, i, i + Len(p) - 1) = p

\* Object member insertion: a repeated key keeps its place and takes the new value.
PutMember(ms, k, val) ==
    IF \E i \in 1..Len(ms) : ms[i].k = k
    THEN [i \in 1..Len(ms) |-> IF ms[i].k = k THEN [k |-> k, v |-> val] ELSE ms[i]]
    ELSE Append(ms, [k |-> k, v |-> val])

RECURSIVE ParseValue(_, _)
RECURSIVE ParseElems(_, _, _)
RECURSIVE ParseMembers(_, _, _)

\* A value starting at index i (whitespace already skipped).
ParseValue(s, i) ==
    IF i > Len(s) THEN PFail
    ELSE IF s[i] = "{" THEN
        LET j == SkipWs(s, i + 1)
        IN  IF j <= Len(s) /\ s[j] = "}" THEN POk(JObj(<<>>), j + 1)
            ELSE ParseMembers(s, j, <<>>)
    ELSE IF s[i] = "[" THEN
        LET j == SkipWs(s, i + 1)
        IN  IF j <= Len(s) /\ s[j] = "]" THEN POk(JArr(<<>>), j + 1)
            ELSE ParseElems(s, j, <<>>)
    ELSE IF s[i] = QUOTE THEN
        LET r == StrBody(s, i + 1, <<>>)
        IN  IF r.ok THEN POk(JStr(r.val), r.next) ELSE PFail
    ELSE IF s[i] = "-" \/ IsDigit(s[i]) THEN ParseNumber(s, i)
    ELSE IF StartsWithAt(s, i, <<"n", "u", "l", "l">>) THEN POk(JNull, i + 4)
    ELSE IF StartsWithAt(s, i, <<"t", "r", "u", "e">>) THEN POk(JTrue, i + 4)
    ELSE IF StartsWithAt(s, i, <<"f", "a", "l", "s", "e">>) THEN POk(JFalse, i + 5)
    ELSE PFail

\* Array elements from index i, up to and including the closing bracket.
ParseElems(s, i, acc) ==
    LET r == ParseValue(s, i)
    IN  IF ~r.ok THEN PFail
        ELSE LET j == SkipWs(s, r.next)
             IN  IF j > Len(s) THEN PFail
                 ELSE IF s[j] = "," THEN ParseElems(s, SkipWs(s, j + 1), Append(acc, r.val))
                 ELSE IF s[j] = "]" THEN POk(JArr(Append(acc, r.val)), j + 1)
                 ELSE PFail

\* Object members from index i, up to and including the closing brace.
ParseMembers(s, i, acc) ==
    IF i > Len(s) \/ s[i] # QUOTE THEN PFail
    ELSE LET key == StrBody(s, i + 1, <<>>)
         IN  IF ~key.ok THEN PFail
             ELSE LET c == SkipWs(s, key.next)
                  IN  IF c > Len(s) \/ s[c] # ":" THEN PFail
                      ELSE LET r == ParseValue(s, SkipWs(s, c + 1))
                           IN  IF ~r.ok THEN PFail
                               ELSE LET j == SkipWs(s, r.next)
                                        ms == PutMember(acc, key.val, r.val)
                                    IN  IF j > Len(s) THEN PFail
                                        ELSE IF s[j] = "," THEN ParseMembers(s, SkipWs(s, j + 1), ms)
                                        ELSE IF s[j] = "}" THEN POk(JObj(ms), j + 1)
                                        ELSE PFail

\* JSON.parse(s): [ok |-> TRUE, val |-> value], or [ok |-> FALSE] for a SyntaxError.
JSONParse(s) ==
    Bind(ParseValue(s, SkipWs(s, 1)),
         LAMBDA r : IF r.ok /\ SkipWs(s, r.next) = Len(s) + 1
                    THEN [ok |-> TRUE, val |-> r.val]
                    ELSE [ok |-> FALSE])

(***************************************************************************)
(* Error values                                                            *)
(*                                                                         *)
(* A thrown value is [cls, msg, stack, engine, price].  cls is the class   *)
(* of an Error ("Error", "TypeError", "ApiKeyNotSetError",                 *)
(* "AnomalousPriceError", "QuotaExceededError") or the type of a           *)
(* throwable that is no Error ("string", "null", "undefined", "object").   *)
(* msg is the message as a sequence of fragments, stack the stack trace as *)
(* a sequence of frames (empty: no stack).                                 *)
(***************************************************************************)
NoEngine == ""
NoPrice == <<>>

ErrorClasses == {"Error", "TypeError", "ApiKeyNotSetError", "AnomalousPriceError", "QuotaExceededError"}

NewError(msg, stack) ==
    [cls |-> "Error", msg |-> msg, stack |-> stack, engine |-> NoEngine, price |-> NoPrice]

NewTypeError(msg, stack) ==
    [cls |-> "TypeError", msg |-> msg, stack |-> stack, engine |-> NoEngine, price |-> NoPrice]

\* QuotaExceededError with a constructor that does not store its engine
\* argument: the variant C9 tells from the class of part_015.
QuotaExceededError_NoEngine(msg, engine, stack) ==
    [cls |-> "QuotaExceededError", msg |-> msg, stack |-> stack, engine |-> NoEngine, price |-> NoPrice]

QuotaExceededError(msg, engine, stack) ==
    [cls |-> "QuotaExceededError", msg |-> msg, stack |-> stack, engine |-> engine, price |-> NoPrice]

ApiKeyNotSetError(msg, stack) ==
    [cls |-> "ApiKeyNotSetError", msg |-> msg, stack |-> stack, engine |-> NoEngine, price |-> NoPrice]

AnomalousPriceError(msg, price, stack) ==
    [cls |-> "AnomalousPriceError", msg |-> msg, stack |-> stack, engine |-> NoEngine, price |-> price]

\* error instanceof C
InstanceOf(e, C) ==
    IF C = "Error" THEN e.cls \in ErrorClasses ELSE e.cls = C

MalformedMsg == "La API devolvio un formato de datos inesperado. Por favor, intentalo de nuevo."

(***************************************************************************)
(* safeJsonParse: the repair scanner and the two parse attempts            *)
(***************************************************************************)
\* The lookahead without its skipping of whitespace: the variant C13 tells from
\* lines 136-141.
NextMeaningfulChar_NoSkip(s, j) == IF j <= Len(s) THEN s[j] ELSE ""

\* Lines 136-142: the first character from index j on that is not whitespace,
\* "" if none.
NextMeaningfulChar(s, j) ==
    LET rest == {k \in j..Len(s) : ~IsSpace(s[k])}
    IN  IF rest = {} THEN ""
        ELSE s[CHOOSE k \in rest : \A m \in rest : k <= m]

\* Lines 114-116: the scanner's variables before the loop.
ScanStart == [inString |-> FALSE, isEscaped |-> FALSE, repairedString |-> <<>>]

\* No scanner loop in progress.
ScanOff == [i |-> 0, st |-> ScanStart, input |-> <<>>, outputs |-> <<>>]

\* Lines 119-160: the loop body at index i (1-based) on the variables st.
\* The loop body without the branch of lines 155-157, raw line breaks inside a
\* string copied as they are: the variant C14 tells from the code.
ScanStep_KeepNewlines(st, s, i) ==
    LET char == s[i]
    IN  CASE st.isEscaped ->
               [st EXCEPT !.repairedString = Append(@, char), !.isEscaped = FALSE]
          [] ~st.isEscaped /\ char = BSLASH ->
               [st EXCEPT !.isEscaped = TRUE, !.repairedString = Append(@, char)]
          [] ~st.isEscaped /\ char = QUOTE /\ st.inString
               /\ NextMeaningfulChar(s, i + 1) \in {":", ",", "}", "]"} ->
               [st EXCEPT !.inString = FALSE, !.repairedString = Append(@, char)]
          [] ~st.isEscaped /\ char = QUOTE /\ st.inString
               /\ NextMeaningfulChar(s, i + 1) \notin {":", ",", "}", "]"} ->
               [st EXCEPT !.repairedString = @ \o <<BSLASH, QUOTE>>]
          [] ~st.isEscaped /\ char = QUOTE /\ ~st.inString ->
               [st EXCEPT !.inString = TRUE, !.repairedString = Append(@, char)]
          [] OTHER ->
               [st EXCEPT !.repairedString = Append(@, char)]

\* The loop body without the branches of lines 121-131, a backslash copied as
\* an ordinary character: the variant C26 tells from the code.
ScanStep_NoEscapes(st, s, i) ==
    LET char == s[i]
    IN  CASE char = QUOTE /\ st.inString
               /\ NextMeaningfulChar(s, i + 1) \in {":", ",", "}", "]"} ->
               [st EXCEPT !.inString = FALSE, !.repairedString = Append(@, char)]
          [] char = QUOTE /\ st.inString
               /\ NextMeaningfulChar(s, i + 1) \notin {":", ",", "}", "]"} ->
               [st EXCEPT !.repairedString = @ \o <<BSLASH, QUOTE>>]
          [] char = QUOTE /\ ~st.inString ->
               [st EXCEPT !.inString = TRUE, !.repairedString = Append(@, char)]
          [] char # QUOTE /\ st.inString /\ char = LF ->
               [st EXCEPT !.repairedString = @ \o <<BSLASH, "n">>]
          [] char # QUOTE /\ st.inString /\ char = CR ->
               [st EXCEPT !.repairedString = @ \o <<BSLASH, "r">>]
          [] OTHER ->
               [st EXCEPT !.repairedString = Append(@, char)]

ScanStep(st, s, i) ==
    LET char == s[i]
    IN  CASE st.isEscaped ->
               [st EXCEPT !.repairedString = Append(@, char), !.isEscaped = FALSE]
          [] ~st.isEscaped /\ char = BSLASH ->
               [st EXCEPT !.isEscaped = TRUE, !.repairedString = Append(@, char)]
          [] ~st.isEscaped /\ char = QUOTE /\ st.inString
               /\ NextMeaningfulChar(s, i + 1) \in {":", ",", "}", "]"} ->
               [st EXCEPT !.inString = FALSE, !.repairedString = Append(@, char)]
          [] ~st.isEscaped /\ char = QUOTE /\ st.inString
               /\ NextMeaningfulChar(s, i + 1) \notin {":", ",", "}", "]"} ->
               [st EXCEPT !.repairedString = @ \o <<BSLASH, QUOTE>>]
          [] ~st.isEscaped /\ char = QUOTE /\ ~st.inString ->
               [st EXCEPT !.inString = TRUE, !.repairedString = Append(@, char)]
          [] ~st.isEscaped /\ char \notin {BSLASH, QUOTE} /\ st.inString /\ char = LF ->
               [st EXCEPT !.repairedString = @ \o <<BSLASH, "n">>]
          [] ~st.isEscaped /\ char \notin {BSLASH, QUOTE} /\ st.inString /\ char = CR ->
               [st EXCEPT !.repairedString = @ \o <<BSLASH, "r">>]
          [] OTHER ->
               [st EXCEPT !.repairedString = Append(@, char)]

\* Line 118: the loop over the indices lo..hi in increasing order.  The range
\* is split in halves, and the variables are evaluated (the test on
\* st.isEscaped) before a half is entered, so that the evaluation stays
\* shallow on long texts.
RECURSIVE Scan(_, _, _, _)
Scan(st, s, lo, hi) ==
    CASE st.isEscaped \in BOOLEAN /\ lo > hi -> st
      [] lo = hi -> ScanStep(st, s, lo)
      [] OTHER -> Scan(Scan(st, s, lo, (lo + hi) \div 2), s, (lo + hi) \div 2 + 1, hi)

RepairScan(jsonString) == Scan(ScanStart, jsonString, 1, Len(jsonString)).repairedString

\* Line 167: the error thrown when the repaired text does not parse either.
\* The message is fixed; functionName goes to console.error only.
RepairFailure(functionName, stack) == NewError(<<MalformedMsg>>, stack)

\* A pipeline that runs the scanner before any parse, whether or not the text
\* parses as it is: the variant C22 tells from the code.
safeJsonParse_ScanFirst(jsonString, functionName, stack) ==
    Bind(JSONParse(RepairScan(jsonString)), LAMBDA second :
      IF second.ok
      THEN [ok |-> TRUE, val |-> second.val, repaired |-> TRUE, log |-> <<"scan", "parse">>]
      ELSE [ok |-> FALSE, err |-> RepairFailure(functionName, stack),
            log |-> <<"scan", "parse", "error", "throw">>])

\* Lines 108-170.  [ok |-> TRUE, val, repaired] or [ok |-> FALSE, err].
\* `log` lists what the call did, in order.
safeJsonParse(jsonString, functionName, stack) ==
    Bind(JSONParse(jsonString), LAMBDA direct :
      IF direct.ok
      THEN [ok |-> TRUE, val |-> direct.val, repaired |-> FALSE, log |-> <<"parse">>]
      ELSE Bind(JSONParse(RepairScan(jsonString)), LAMBDA second :
        IF second.ok
        THEN [ok |-> TRUE, val |-> second.val, repaired |-> TRUE,
              log |-> <<"parse", "warn", "scan", "parse">>]
        ELSE [ok |-> FALSE, err |-> RepairFailure(functionName, stack),
              log |-> <<"parse", "warn", "scan", "parse", "error", "throw">>]))

(***************************************************************************)
(* cleanAndParseJson: the payload extractor                                *)
(***************************************************************************)
\* The backtick character (SANY reads no backtick inside a string).
BTICK == "BT"
FenceJson == <<BTICK, BTICK, BTICK, "j", "s", "o", "n">>
Fence == <<BTICK, BTICK, BTICK>>

\* .replace(/^BTBTBTjson\s*/, '')
StripOpenFence(s) ==
    IF StartsWith(s, FenceJson)
    THEN TrimStart(SubSeq(s, Len(FenceJson) + 1, Len(s)))
    ELSE s

\* Line 174 without its second replace, a closing fence left in place: the
\* variant C15 tells from the code.
StripCloseFence_Keep(s) == s

\* .replace(/BTBTBT$/, '')
StripCloseFence(s) ==
    IF EndsWith(s, Fence) THEN SubSeq(s, 1, Len(s) - Len(Fence)) ELSE s

\* Line 174.
StripFences(txt) == Trim(StripCloseFence(StripOpenFence(Trim(txt))))

\* Lines 174-199: the text handed to safeJsonParse.
ExtractJsonFrom(txt, stripped) ==
    LET firstBrace == IndexOf(txt, "{")
        firstBracket == IndexOf(txt, "[")
        start == IF firstBrace = -1 THEN firstBracket
                 ELSE IF firstBracket = -1 THEN firstBrace
                 ELSE Min(firstBrace, firstBracket)
        end == Max(LastIndexOf(txt, "}"), LastIndexOf(txt, "]"))
    IN  IF ~StartsWith(stripped, <<"{">>) /\ ~StartsWith(stripped, <<"[">>)
        THEN IF start # -1 /\ end > start
             THEN Substring(txt, start, end + 1)
             ELSE stripped
        ELSE stripped

ExtractJson(txt) == ExtractJsonFrom(txt, StripFences(txt))

\* Lines 172-202.
cleanAndParseJson(txt, functionName, stack) ==
    safeJsonParse(ExtractJson(txt), functionName, stack)

(***************************************************************************)
(* handleGeminiError: the error classifier                                 *)
(***************************************************************************)
\* A stack frame (one line of error.stack): `at` when the line contains
\* "at ", `svc` when it contains "geminiService.ts", `fmt` the pattern of
\* lines 44-53 the line matches ("named": the first regular expression,
\* "paren": the second, "raw": neither), `fn` and `loc` the captured groups
\* (for "raw": fn is the trimmed line).
Frame(at, svc, fmt, fn, loc) == [at |-> at, svc |-> svc, fmt |-> fmt, fn |-> fn, loc |-> loc]

\* Lines 35-57.
DebugInfo(error) ==
    IF InstanceOf(error, "Error") /\ error.stack # <<>>
    THEN LET stackLines == error.stack
             callers == {i \in 1..Len(stackLines) : stackLines[i].at /\ ~stackLines[i].svc}
         IN  IF callers = {} THEN <<>>
             ELSE LET callerLine == stackLines[CHOOSE i \in callers : \A j \in callers : i <= j]
                  IN  CASE callerLine.fmt = "named" ->
                               <<"(Error en", callerLine.fn, "en", callerLine.loc, ")">>
                        [] callerLine.fmt = "paren" ->
                               <<"(Error en", callerLine.loc, ")">>
                        [] OTHER ->
                               <<"(Detalles:", callerLine.fn, ")">>
    ELSE <<>>

\* The keywords of lines 67-99 that occur in a message fragment as written.
RawKeywords(frag) ==
    CASE frag = "Failed to fetch" -> {"fetch"}
      [] frag = "fetchPrices" -> {"fetch"}
      [] frag = "network unreachable" -> {"network"}
      [] frag = "404" -> {"404"}
      [] OTHER -> {}

\* The keywords that occur in fragment.toLowerCase().
LowerKeywords(frag) ==
    CASE frag = "Failed to fetch" -> {"fetch"}
      [] frag = "FETCH FAILED" -> {"fetch"}
      [] frag = "fetchPrices" -> {"fetch"}
      [] frag = "Load failed" -> {"load failed"}
      [] frag = "network unreachable" -> {"network"}
      [] frag = "RESOURCE_EXHAUSTED" -> {"resource_exhausted"}
      [] frag = "Quota exceeded" -> {"quota"}
      [] frag = "PERMISSION_DENIED" -> {"permission_denied"}
      [] frag = "API key not valid" -> {"api key not valid"}
      [] frag = "NOT_FOUND" -> {"not_found"}
      [] frag = "404" -> {"404"}
      [] frag = "Invalid argument" -> {"invalid argument"}
      [] frag = "invalid JSON payload" -> {"json"}
      [] frag = "Internal error" -> {"internal"}
      [] OTHER -> {}

\* message.includes(kw)
Includes(msg, kw) == \E i \in 1..Len(msg) : kw \in RawKeywords(msg[i])

\* message.toLowerCase().includes(kw)
LowerIncludes(msg, kw) == \E i \in 1..Len(msg) : kw \in LowerKeywords(msg[i])

NetworkMsg == "Error de red. Por favor, comprueba tu conexion a internet e intentalo de nuevo."
QuotaHead == "Se ha excedido la cuota de uso para el motor de IA"
QuotaTail == "Por favor, revisa tu plan y los detalles de facturacion en tu cuenta de Google AI Studio para poder continuar."
AuthMsg == "La clave API de Gemini proporcionada no es valida o no tiene los permisos necesarios."
ModelHead == "El motor de IA"
ModelTail == "no fue encontrado o no esta disponible. Por favor, selecciona otro motor si es posible."
InvalidHead == "La solicitud a la API contenia un argumento no valido. Detalles:"
UpstreamHead == "La API ha devuelto un error:"

\* What handleGeminiError hands back: the Error it returns, or the exception
\* it raises itself; `arg` is the caught value afterwards (lines 62 and 73
\* append to its message).
Returned(err, arg) == [threw |-> FALSE, err |-> err, arg |-> arg]
Raised(err, arg) == [threw |-> TRUE, err |-> err, arg |-> arg]

\* Reading .message of a value and calling a string method on it: possible for
\* an Error (its message is a string); a TypeError for null and undefined
\* (no properties) and for a value whose message is no string.
MessageReadable(error) == InstanceOf(error, "Error")

ReadFailure(error) ==
    NewTypeError(<<"Cannot read properties of", error.cls, "(reading 'message')">>, <<>>)

\* Lines 77-102: the keyword rules, for a value that is an Error.
KeywordRules(error, defaultMessage, model, debugInfo) ==
    IF ~MessageReadable(error) THEN Raised(ReadFailure(error), error)
    ELSE IF LowerIncludes(error.msg, "resource_exhausted") \/ LowerIncludes(error.msg, "quota")
    THEN Returned(QuotaExceededError(<<QuotaHead, model, QuotaTail>> \o debugInfo, model, <<>>), error)
    ELSE IF LowerIncludes(error.msg, "api key not valid") \/ LowerIncludes(error.msg, "permission_denied")
    THEN Returned(NewError(<<AuthMsg>> \o debugInfo, <<>>), error)
    ELSE IF LowerIncludes(error.msg, "not_found") \/ LowerIncludes(error.msg, "404")
    THEN Returned(NewError(<<ModelHead, model, ModelTail>> \o debugInfo, <<>>), error)
    ELSE IF LowerIncludes(error.msg, "invalid argument")
    THEN Returned(NewError(<<InvalidHead>> \o error.msg \o debugInfo, <<>>), error)
    ELSE IF ~LowerIncludes(error.msg, "json") /\ ~LowerIncludes(error.msg, "internal")
    THEN Returned(NewError(<<UpstreamHead>> \o error.msg \o debugInfo, <<>>), error)
    ELSE Returned(NewError(<<defaultMessage>> \o debugInfo, <<>>), error)

\* The network rule without its instanceof TypeError test: the variant C10
\* tells from line 67 (a pass-through error whose appended debug info names a
\* function such as fetchPrices would change kind on its second classification).
IsNetworkFailure_AnyClass(error) == Includes(error.msg, "fetch")

\* Line 67: the network rule.
IsNetworkFailure(error) ==
    InstanceOf(error, "TypeError") /\ Includes(error.msg, "fetch")

\* handleGeminiError without the instanceof Error test of line 77, reading
\* error.message of whatever was caught: the variant C6 tells from the code.
handleGeminiError_NoErrorGuard(error, defaultMessage, model) ==
    LET debugInfo == DebugInfo(error)
        appended == [error EXCEPT !.msg = @ \o debugInfo]
    IN  IF InstanceOf(error, "ApiKeyNotSetError") THEN Returned(appended, appended)
        ELSE IF IsNetworkFailure(error)
        THEN Returned(NewError(<<NetworkMsg>> \o debugInfo, <<>>), error)
        ELSE IF InstanceOf(error, "AnomalousPriceError") THEN Returned(appended, appended)
        ELSE KeywordRules(error, defaultMessage, model, debugInfo)

\* A classifier that wraps the domain errors as it wraps any other error, in a
\* new Error carrying the default message: the variant C24 tells from lines
\* 60-64 and 71-75.
handleGeminiError_WrapDomain(error, defaultMessage, model) ==
    LET debugInfo == DebugInfo(error)
    IN  IF IsNetworkFailure(error)
        THEN Returned(NewError(<<NetworkMsg>> \o debugInfo, <<>>), error)
        ELSE IF error.cls \in {"ApiKeyNotSetError", "AnomalousPriceError"}
        THEN Returned(NewError(<<defaultMessage>> \o debugInfo, <<>>), error)
        ELSE IF InstanceOf(error, "Error")
        THEN KeywordRules(error, defaultMessage, model, debugInfo)
        ELSE Returned(NewError(<<defaultMessage>> \o debugInfo, <<>>), error)

\* Lines 32-106.
handleGeminiError(error, defaultMessage, model) ==
    LET debugInfo == DebugInfo(error)
        appended == [error EXCEPT !.msg = @ \o debugInfo]
    IN  IF InstanceOf(error, "ApiKeyNotSetError") THEN Returned(appended, appended)
        ELSE IF IsNetworkFailure(error)
        THEN Returned(NewError(<<NetworkMsg>> \o debugInfo, <<>>), error)
        ELSE IF InstanceOf(error, "AnomalousPriceError") THEN Returned(appended, appended)
        ELSE IF InstanceOf(error, "Error")
        THEN KeywordRules(error, defaultMessage, model, debugInfo)
        ELSE Returned(NewError(<<defaultMessage>> \o debugInfo, <<>>), error)

\* The default messages the facades pass (lines 252, 291, 342, 396, 470, 530,
\* 577, 664, 706, 759, 848).
DefaultMessage(op) ==
    CASE op = "getAssetInfo" -> "No se pudo conectar con el servicio de IA para buscar activos."
      [] op = "getAnalysisVectorsForAsset" -> "No se pudieron obtener los vectores de analisis para este activo."
      [] op = "getAssetAnalysis" -> "No se pudo generar el analisis para el vector."
      [] op = "getGlobalAnalysis" -> "No se pudo generar la Vision Global del activo."
      [] op = "askAboutAnalysis" -> "No se pudo procesar la pregunta."
      [] op = "askWithWebSearch" -> "No se pudo procesar la pregunta con busqueda web."
      [] op = "getAlternativeAssets" -> "No se pudieron obtener activos alternativos."
      [] op = "getAssetPriceOnDate" -> "No se pudo obtener el precio del activo para la fecha dada."
      [] op = "getAssetFuturePricePrediction" -> "No se pudo obtener el precio del activo."
      [] op = "getAssetQuote" -> "No se pudo obtener la cotizacion del activo."
      [] op = "getLimitBuyPrice" -> "No se pudo calcular el precio limite de compra."
      [] op = "analyzeMarketSector" -> "No se pudo generar el analisis de mercado."

Operations ==
    {"getAssetInfo", "getAnalysisVectorsForAsset", "getAssetAnalysis", "getGlobalAnalysis",
     "askAboutAnalysis", "askWithWebSearch", "getAlternativeAssets", "getAssetQuote",
     "getAssetPriceOnDate", "getAssetFuturePricePrediction", "getLimitBuyPrice",
     "analyzeMarketSector"}

\* The kind of the taxonomy an error value belongs to, read off its class and
\* the text its message starts with.
KindOf(err) ==
    CASE err.cls = "ApiKeyNotSetError" -> "ApiKeyNotSet"
      [] err.cls = "AnomalousPriceError" -> "AnomalousPrice"
      [] err.cls = "QuotaExceededError" -> "QuotaExceeded"
      [] err.cls = "Error" /\ err.msg # <<>> /\ err.msg[1] = NetworkMsg -> "NetworkError"
      [] err.cls = "Error" /\ err.msg # <<>> /\ err.msg[1] = AuthMsg -> "AuthenticationError"
      [] err.cls = "Error" /\ err.msg # <<>> /\ err.msg[1] = ModelHead -> "ModelUnavailable"
      [] err.cls = "Error" /\ err.msg # <<>> /\ err.msg[1] = InvalidHead -> "InvalidRequest"
      [] err.cls = "Error" /\ err.msg # <<>> /\ err.msg[1] = UpstreamHead -> "UpstreamError"
      [] err.cls = "Error" /\ err.msg # <<>> /\ err.msg[1] = MalformedMsg -> "MalformedPayload"
      [] err.cls = "Error" /\ err.msg # <<>>
           /\ err.msg[1] \in {DefaultMessage(op) : op \in Operations} -> "UnknownError"
      [] OTHER -> "Unclassified"

(***************************************************************************)
(* JavaScript values and the property names the facades read               *)
(***************************************************************************)
Undefined == [t |-> "undefined", v |-> <<>>]
JNaN == [t |-> "nan", v |-> <<>>]

K_assets == <<"a", "s", "s", "e", "t", "s">>
K_vectors == <<"v", "e", "c", "t", "o", "r", "s">>
K_alternatives == <<"a", "l", "t", "e", "r", "n", "a", "t", "i", "v", "e", "s">>
K_name == <<"n", "a", "m", "e">>
K_ticker == <<"t", "i", "c", "k", "e", "r">>
K_currentPrice == <<"c", "u", "r", "r", "e", "n", "t", "P", "r", "i", "c", "e">>
K_change == <<"c", "h", "a", "n", "g", "e">>
K_price == <<"p", "r", "i", "c", "e">>
K_currency == <<"c", "u", "r", "r", "e", "n", "c", "y">>
K_changeValue == <<"c", "h", "a", "n", "g", "e", "V", "a", "l", "u", "e">>
K_changePercentage == <<"c", "h", "a", "n", "g", "e", "P", "e", "r", "c", "e", "n", "t", "a", "g", "e">>
K_peRatio == <<"p", "e", "R", "a", "t", "i", "o">>
K_eps == <<"e", "p", "s">>
K_dividendYield == <<"d", "i", "v", "i", "d", "e", "n", "d", "Y", "i", "e", "l", "d">>
K_sectorAverage == <<"s", "e", "c", "t", "o", "r", "A", "v", "e", "r", "a", "g", "e">>
K_marketCap == <<"m", "a", "r", "k", "e", "t", "C", "a", "p">>
K_averagePeRatio == <<"a", "v", "e", "r", "a", "g", "e", "P", "e", "R", "a", "t", "i", "o">>
K_averageEps == <<"a", "v", "e", "r", "a", "g", "e", "E", "p", "s">>
K_averageDividendYield == <<"a", "v", "e", "r", "a", "g", "e", "D", "i", "v", "i", "d", "e", "n", "d", "Y", "i", "e", "l", "d">>
K_summary == <<"s", "u", "m", "m", "a", "r", "y">>
K_fullText == <<"f", "u", "l", "l", "T", "e", "x", "t">>
K_sentiment == <<"s", "e", "n", "t", "i", "m", "e", "n", "t">>
K_answerFound == <<"a", "n", "s", "w", "e", "r", "F", "o", "u", "n", "d">>
K_type == <<"t", "y", "p", "e">>
K_description == <<"d", "e", "s", "c", "r", "i", "p", "t", "i", "o", "n">>

\* typeof val
TypeOf(val) ==
    CASE val.t \in {"num", "nan"} -> "number"
      [] val.t = "str" -> "string"
      [] val.t \in {"true", "false"} -> "boolean"
      [] val.t = "undefined" -> "undefined"
      [] OTHER -> "object"

\* The truthiness of val.
Truthy(val) ==
    CASE val.t \in {"null", "undefined", "false", "nan"} -> FALSE
      [] val.t = "num" -> val.v[1] # 0
      [] val.t = "str" -> val.v # <<>>
      [] OTHER -> TRUE

\* val is null or undefined: reading a property of it raises a TypeError.
Nullish(val) == val.t \in {"null", "undefined"}

\* val.key for a val that is not nullish.  Own data properties only: a member
\* of an object, undefined for anything else.
Field(val, key) ==
    IF val.t = "obj" /\ \E i \in 1..Len(val.v) : val.v[i].k = key
    THEN val.v[CHOOSE i \in 1..Len(val.v) : val.v[i].k = key].v
    ELSE Undefined

\* The members an object spread {...val} copies from an object; nothing from
\* null, undefined, a number or a boolean.  (An array or a string would spread
\* its indices, which no facade reads.)
Spread(val) == IF val.t = "obj" THEN val.v ELSE <<>>

(***************************************************************************)
(* parseNumeric (analyzeMarketSector, lines 820-827)                       *)
(***************************************************************************)
IsNumChar(c) == IsDigit(c) \/ c = "."

\* The index after the run of [\d.] characters that starts at i.
RECURSIVE NumRunEnd(_, _)
NumRunEnd(s, i) == IF i <= Len(s) /\ IsNumChar(s[i]) THEN NumRunEnd(s, i + 1) ELSE i

\* Where /-?[\d.]+/ can match from: the positions p of s.
NumMatchStarts(s) ==
    {p \in 1..Len(s) : \/ IsNumChar(s[p])
                       \/ s[p] = "-" /\ p + 1 <= Len(s) /\ IsNumChar(s[p + 1])}

\* value.match(/-?[\d.]+/): the first match, <<>> when there is none.
FirstNumericMatch(s) ==
    IF NumMatchStarts(s) = {} THEN <<>>
    ELSE LET p == CHOOSE q \in NumMatchStarts(s) : \A r \in NumMatchStarts(s) : q <= r
             from == IF s[p] = "-" THEN p + 1 ELSE p
         IN  SubSeq(s, p, NumRunEnd(s, from) - 1)

\* parseFloat of a text made of an optional sign, digits and dots.
ParseFloat(m) ==
    LET neg == m # <<>> /\ m[1] = "-"
        j == IF neg THEN 2 ELSE 1
        ip == Digits(m, j, 0, 0)
        hasDot == ip.next <= Len(m) /\ m[ip.next] = "."
        fp == IF hasDot THEN Digits(m, ip.next + 1, 0, 0) ELSE [n |-> 0, k |-> 0, next |-> ip.next]
        sign == IF neg THEN -1 ELSE 1
    IN  IF ip.k = 0 /\ fp.k = 0 THEN JNaN
        ELSE JNum(sign * (ip.n * Pow10(fp.k) + fp.n), fp.k)

\* A sanitizer that hands every value back as it is: the variant C18 tells from
\* lines 820-827.
parseNumeric_PassThrough(value) == value

parseNumeric(value) ==
    IF TypeOf(value) = "number" THEN value
    ELSE IF TypeOf(value) = "string" THEN
        LET numericString == FirstNumericMatch(value.v)
        IN  IF numericString # <<>> THEN ParseFloat(numericString) ELSE JNum(0, 0)
    ELSE JNum(0, 0)

(***************************************************************************)
(* The request facade: what each operation does with the upstream response *)
(*                                                                         *)
(* A response is [hasText, text, meta, chunks]: hasText is FALSE when      *)
(* response.text is undefined; meta is usageMetadata ([has, p, c, t]);     *)
(* chunks are the grounding chunks ([uri, title]).                         *)
(***************************************************************************)
\* The stack of an error created inside the service while a view's handler
\* awaits it: the service's own frames, then the caller's.
ServiceStack ==
    << Frame(FALSE, FALSE, "raw", "Error", ""),
       Frame(TRUE, TRUE, "named", "safeJsonParse", "geminiService.ts:167"),
       Frame(TRUE, FALSE, "named", "handleSearch", "App.tsx:210") >>

TextTypeError == NewTypeError(<<"Cannot read properties of undefined (reading 'trim')">>, ServiceStack)
PropTypeError == NewTypeError(<<"Cannot read properties of null">>, ServiceStack)
NotFunctionTypeError == NewTypeError(<<"map is not a function">>, ServiceStack)

\* Lines 239-244 (and the same lines of every facade).
UsageOf(resp) ==
    [promptTokens |-> IF resp.meta.has THEN resp.meta.p ELSE 0,
     candidateTokens |-> IF resp.meta.has THEN resp.meta.c ELSE 0,
     totalTokens |-> IF resp.meta.has THEN resp.meta.t ELSE 0]

\* Lines 332-336: the grounding chunks that carry a uri.
SourcesOf(resp) == SelectSeq(resp.chunks, LAMBDA ch : ch.uri # "")

\* A return that adds the token counts to a module-level total and reports the
\* total (here: what slot 1 last returned): the variant C19 tells from the
\* function-local `usage` of lines 239-244.
BodyReturn_SharedUsage(data, usage) ==
    [ok |-> TRUE, data |-> data,
     usage |-> [promptTokens |-> usage.promptTokens + inv[1].out.usage.promptTokens,
                candidateTokens |-> usage.candidateTokens + inv[1].out.usage.candidateTokens,
                totalTokens |-> usage.totalTokens + inv[1].out.usage.totalTokens]]

\* How the body of a try block ends: a return value, or a thrown value.
BodyReturn(data, usage) == [ok |-> TRUE, data |-> data, usage |-> usage]
BodyThrow(err) == [ok |-> FALSE, err |-> err]

\* Lines 245-249.
getAssetInfoBody(resp) ==
    IF ~resp.hasText THEN BodyThrow(TextTypeError)
    ELSE Bind(Trim(resp.text), LAMBDA jsonTxt :
      IF jsonTxt = <<>> THEN BodyReturn(JArr(<<>>), UsageOf(resp))
      ELSE Bind(safeJsonParse(jsonTxt, "getAssetInfo", ServiceStack), LAMBDA r :
        IF ~r.ok THEN BodyThrow(r.err)
        ELSE IF Nullish(r.val) THEN BodyThrow(PropTypeError)
        ELSE BodyReturn(IF Nullish(Field(r.val, K_assets)) THEN JArr(<<>>)
                        ELSE Field(r.val, K_assets), UsageOf(resp))))

\* Lines 284-288.
getAnalysisVectorsForAssetBody(resp) ==
    IF ~resp.hasText THEN BodyThrow(TextTypeError)
    ELSE Bind(Trim(resp.text), LAMBDA jsonTxt :
      IF jsonTxt = <<>> THEN BodyReturn(JNull, UsageOf(resp))
      ELSE Bind(safeJsonParse(jsonTxt, "getAnalysisVectorsForAsset", ServiceStack), LAMBDA r :
        IF ~r.ok THEN BodyThrow(r.err)
        ELSE IF Nullish(r.val) THEN BodyThrow(PropTypeError)
        ELSE BodyReturn(IF Truthy(Field(r.val, K_vectors)) THEN Field(r.val, K_vectors)
                        ELSE JNull, UsageOf(resp))))

\* Lines 326-340 and 380-394: getAssetAnalysis and getGlobalAnalysis.
AnalysisBody(resp, functionName) ==
    IF ~resp.hasText THEN BodyThrow(TextTypeError)
    ELSE Bind(cleanAndParseJson(resp.text, functionName, ServiceStack), LAMBDA r :
      IF ~r.ok THEN BodyThrow(r.err)
      ELSE BodyReturn([content |-> r.val, sources |-> SourcesOf(resp)], UsageOf(resp)))

\* Lines 460-468.
askAboutAnalysisBody(resp) ==
    IF ~resp.hasText THEN BodyThrow(TextTypeError)
    ELSE Bind(cleanAndParseJson(resp.text, "askAboutAnalysis", ServiceStack), LAMBDA r :
      IF ~r.ok THEN BodyThrow(r.err)
      ELSE BodyReturn(r.val, UsageOf(resp)))

\* Lines 513-528.
askWithWebSearchBody(resp) ==
    IF ~resp.hasText THEN BodyThrow(TextTypeError)
    ELSE Bind(cleanAndParseJson(Trim(resp.text), "askWithWebSearch", ServiceStack), LAMBDA r :
      IF ~r.ok THEN BodyThrow(r.err)
      ELSE BodyReturn([answer |-> JObj(Spread(r.val)), sources |-> SourcesOf(resp)],
                      UsageOf(resp)))

\* Lines 567-571: one alternative, mapped.
AlternativeWithType(alt, assetType) ==
    JObj(<< [k |-> K_name, v |-> Field(alt, K_name)],
            [k |-> K_ticker, v |-> Field(alt, K_ticker)],
            [k |-> K_type, v |-> assetType],
            [k |-> K_description, v |-> JStr(<<>>)],
            [k |-> K_currentPrice,
             v |-> IF TypeOf(Field(alt, K_currentPrice)) = "number"
                   THEN Field(alt, K_currentPrice) ELSE Undefined],
            [k |-> K_change,
             v |-> IF TypeOf(Field(alt, K_change)) = "number"
                   THEN Field(alt, K_change) ELSE Undefined] >>)

\* Lines 558-574.
getAlternativeAssetsBody(resp, assetType) ==
    IF ~resp.hasText THEN BodyThrow(TextTypeError)
    ELSE Bind(cleanAndParseJson(resp.text, "getAlternativeAssets", ServiceStack), LAMBDA r :
      IF ~r.ok THEN BodyThrow(r.err)
      ELSE Bind(Field(r.val, K_alternatives), LAMBDA alts :
        IF Truthy(r.val) /\ Truthy(alts) THEN
            IF alts.t # "arr" THEN BodyThrow(NotFunctionTypeError)
            ELSE IF \E i \in 1..Len(alts.v) : Nullish(alts.v[i]) THEN BodyThrow(PropTypeError)
            ELSE BodyReturn(JArr([i \in 1..Len(alts.v) |->
                                     AlternativeWithType(alts.v[i], assetType)]),
                            UsageOf(resp))
        ELSE BodyReturn(JNull, UsageOf(resp))))

\* The numbers of lines 648-651, held as <<m, e>> for m / 10^e.
NumGreater(a, b) == a[1] * Pow10(b[2]) > b[1] * Pow10(a[2])
NumTimes(k, a) == <<k * a[1], a[2]>>
One == <<1, 0>>

\* Line 651, for ratio = historicalPrice / currentPrice with currentPrice > 1:
\* ratio > 20 || ratio < 0.05.
RatioAnomalous(historicalPrice, currentPrice) ==
    \/ NumGreater(historicalPrice, NumTimes(20, currentPrice))
    \/ NumGreater(currentPrice, NumTimes(20, historicalPrice))

\* The guard without its test currentPriceForAnomalyCheck > 1: the variant C12
\* tells from line 648.
GuardApplies_NoThreshold(type, price, currentPriceForAnomalyCheck) ==
    /\ type = "historical"
    /\ Truthy(price)
    /\ Truthy(currentPriceForAnomalyCheck)

\* Line 648: when the anomaly guard looks at the ratio at all.
GuardApplies(type, price, currentPriceForAnomalyCheck) ==
    /\ type = "historical"
    /\ Truthy(price)
    /\ Truthy(currentPriceForAnomalyCheck)
    /\ NumGreater(currentPriceForAnomalyCheck.v, One)

NoPriceMsg == "La API no devolvio un precio."
BadPriceFormatMsg == "La API devolvio un formato de precio no valido."
AnomalousMsg == "El precio historico parece anomalo comparado con el actual."
NoQuoteMsg == "La API no devolvio una cotizacion."
BadQuoteFormatMsg == "La API devolvio un formato de cotizacion no valido o incompleto."
NoPredictionMsg == "La API no devolvio una prediccion de precio valida."

\* Lines 636-661: the try block of _getAssetPrice after the upstream call.
\* currentPriceForAnomalyCheck is JNull or a number value.
getAssetPriceBody(resp, type, currentPriceForAnomalyCheck, functionName) ==
    IF ~resp.hasText THEN BodyThrow(TextTypeError)
    ELSE Bind(Trim(resp.text), LAMBDA txt :
      IF txt = <<>> THEN BodyThrow(NewError(<<NoPriceMsg>>, ServiceStack))
      ELSE Bind(cleanAndParseJson(txt, functionName, ServiceStack), LAMBDA r :
        IF ~r.ok THEN BodyThrow(r.err)
        ELSE Bind(r.val, LAMBDA priceData : Bind(Field(priceData, K_price), LAMBDA price :
          IF /\ Truthy(priceData)
             /\ (TypeOf(price) = "number" \/ price.t = "null")
             /\ TypeOf(Field(priceData, K_currency)) = "string"
          THEN IF /\ GuardApplies(type, price, currentPriceForAnomalyCheck)
                  /\ RatioAnomalous(price.v, currentPriceForAnomalyCheck.v)
               THEN BodyThrow(AnomalousPriceError(<<AnomalousMsg>>, price.v, ServiceStack))
               ELSE BodyReturn(priceData, UsageOf(resp))
          ELSE BodyThrow(NewError(<<BadPriceFormatMsg>>, ServiceStack))))))

\* Lines 689-704.
getAssetQuoteBody(resp) ==
    IF ~resp.hasText THEN BodyThrow(TextTypeError)
    ELSE Bind(Trim(resp.text), LAMBDA txt :
      IF txt = <<>> THEN BodyThrow(NewError(<<NoQuoteMsg>>, ServiceStack))
      ELSE Bind(cleanAndParseJson(txt, "getAssetQuote", ServiceStack), LAMBDA r :
        IF ~r.ok THEN BodyThrow(r.err)
        ELSE Bind(r.val, LAMBDA quoteData :
          IF /\ Truthy(quoteData)
             /\ TypeOf(Field(quoteData, K_price)) = "number"
             /\ TypeOf(Field(quoteData, K_changeValue)) = "number"
             /\ TypeOf(Field(quoteData, K_changePercentage)) = "number"
          THEN BodyReturn(quoteData, UsageOf(resp))
          ELSE BodyThrow(NewError(<<BadQuoteFormatMsg>>, ServiceStack)))))

\* Lines 742-757.
getLimitBuyPriceBody(resp) ==
    IF ~resp.hasText THEN BodyThrow(TextTypeError)
    ELSE Bind(Trim(resp.text), LAMBDA txt :
      IF txt = <<>> THEN BodyThrow(NewError(<<NoPriceMsg>>, ServiceStack))
      ELSE Bind(cleanAndParseJson(txt, "getLimitBuyPrice", ServiceStack), LAMBDA r :
        IF ~r.ok THEN BodyThrow(r.err)
        ELSE Bind(r.val, LAMBDA priceData :
          IF Truthy(priceData) /\ TypeOf(Field(priceData, K_price)) = "number"
          THEN BodyReturn(priceData, UsageOf(resp))
          ELSE BodyThrow(NewError(<<BadPriceFormatMsg>>, ServiceStack)))))

\* Lines 831-836: one asset of the sector screen, sanitized.
SanitizedAsset(asset) ==
    JObj(PutMember(PutMember(PutMember(Spread(asset),
            K_peRatio, parseNumeric(Field(asset, K_peRatio))),
            K_eps, parseNumeric(Field(asset, K_eps))),
            K_dividendYield, parseNumeric(Field(asset, K_dividendYield))))

\* Lines 837-842.
SanitizedAverage(sectorAverage) ==
    IF Truthy(sectorAverage)
    THEN JObj(PutMember(PutMember(PutMember(Spread(sectorAverage),
            K_averagePeRatio, parseNumeric(Field(sectorAverage, K_averagePeRatio))),
            K_averageEps, parseNumeric(Field(sectorAverage, K_averageEps))),
            K_averageDividendYield, parseNumeric(Field(sectorAverage, K_averageDividendYield))))
    ELSE JObj(<< [k |-> K_marketCap, v |-> JStr(<<"0">>)],
                 [k |-> K_averagePeRatio, v |-> JNum(0, 0)],
                 [k |-> K_averageEps, v |-> JNum(0, 0)],
                 [k |-> K_averageDividendYield, v |-> JNum(0, 0)] >>)

\* Lines 812-845.
analyzeMarketSectorBody(resp) ==
    IF ~resp.hasText THEN BodyThrow(TextTypeError)
    ELSE Bind(cleanAndParseJson(resp.text, "analyzeMarketSector", ServiceStack), LAMBDA r :
      IF ~r.ok THEN BodyThrow(r.err)
      ELSE IF Nullish(r.val) THEN BodyThrow(PropTypeError)
      ELSE Bind(r.val, LAMBDA result :
        Bind(IF Truthy(Field(result, K_assets)) THEN Field(result, K_assets) ELSE JArr(<<>>),
             LAMBDA assets :
          IF assets.t # "arr" THEN BodyThrow(NotFunctionTypeError)
          ELSE IF \E i \in 1..Len(assets.v) : Nullish(assets.v[i]) THEN BodyThrow(PropTypeError)
          ELSE BodyReturn(
                 JObj(PutMember(PutMember(Spread(result),
                     K_assets, JArr([i \in 1..Len(assets.v) |-> SanitizedAsset(assets.v[i])])),
                     K_sectorAverage, SanitizedAverage(Field(result, K_sectorAverage)))),
                 UsageOf(resp)))))

\* The try block of an operation from the upstream response on.  `cur` is the
\* currentPrice argument of getAssetPriceOnDate (JNull when absent);
\* getAssetFuturePricePrediction passes 'future' and null (line 715).
TryBody(op, resp, cur) ==
    CASE op = "getAssetInfo" -> getAssetInfoBody(resp)
      [] op = "getAnalysisVectorsForAsset" -> getAnalysisVectorsForAssetBody(resp)
      [] op = "getAssetAnalysis" -> AnalysisBody(resp, "getAssetAnalysis")
      [] op = "getGlobalAnalysis" -> AnalysisBody(resp, "getGlobalAnalysis")
      [] op = "askAboutAnalysis" -> askAboutAnalysisBody(resp)
      [] op = "askWithWebSearch" -> askWithWebSearchBody(resp)
      [] op = "getAlternativeAssets" -> getAlternativeAssetsBody(resp, JStr(<<"s", "t", "o", "c", "k">>))
      [] op = "getAssetPriceOnDate" -> getAssetPriceBody(resp, "historical", cur, "getAssetPriceOnDate")
      [] op = "getAssetFuturePricePrediction" ->
             getAssetPriceBody(resp, "future", JNull, "getAssetFuturePricePrediction")
      [] op = "getAssetQuote" -> getAssetQuoteBody(resp)
      [] op = "getLimitBuyPrice" -> getLimitBuyPriceBody(resp)
      [] op = "analyzeMarketSector" -> analyzeMarketSectorBody(resp)

PriceOperations == {"getAssetPriceOnDate", "getAssetFuturePricePrediction"}

\* How an invocation ends: [threw, data, usage, err, classified].  `classified`
\* tells whether the error that escapes is the value handleGeminiError returned.
Completed(data, usage) ==
    [threw |-> FALSE, data |-> data, usage |-> usage, err |-> NewError(<<>>, <<>>),
     classified |-> FALSE]
Escaped(err, classified) ==
    [threw |-> TRUE, data |-> Undefined, usage |-> [promptTokens |-> 0, candidateTokens |-> 0, totalTokens |-> 0],
     err |-> err, classified |-> classified]

\* The catch block of an operation (lines 251-253, 662-666, ...): what escapes
\* when `error` was thrown inside the try block.
CatchBlock(op, error, engine) ==
    IF op \in PriceOperations /\ InstanceOf(error, "AnomalousPriceError")
    THEN Escaped(error, FALSE)
    ELSE Bind(handleGeminiError(error, DefaultMessage(op), engine),
              LAMBDA h : Escaped(h.err, ~h.threw))

\* Lines 714-720: what getAssetFuturePricePrediction does with the result of
\* _getAssetPrice, outside any try block.
PredictionCheck(done) ==
    IF ~done.threw /\ Truthy(done.data) /\ TypeOf(Field(done.data, K_price)) # "number"
    THEN Escaped(NewError(<<NoPredictionMsg>>, ServiceStack), FALSE)
    ELSE done

\* An operation from the moment the upstream call settles: `settled` is
\* [rejected |-> TRUE, error] or [rejected |-> FALSE, resp].
Settle(op, engine, cur, settled) ==
    Bind(IF settled.rejected THEN CatchBlock(op, settled.error, engine)
         ELSE Bind(TryBody(op, settled.resp, cur), LAMBDA body :
                IF body.ok THEN Completed(body.data, body.usage)
                ELSE CatchBlock(op, body.err, engine)),
         LAMBDA inner :
           IF op = "getAssetFuturePricePrediction" THEN PredictionCheck(inner) ELSE inner)

(***************************************************************************)
(* Inputs                                                                  *)
(***************************************************************************)
\* Response texts a model may return.
TxtAnalysis ==
    <<"{", QUOTE, "s", "e", "n", "t", "i", "m", "e", "n", "t", QUOTE, ":", "5", ",", QUOTE,
      "s", "u", "m", "m", "a", "r", "y", QUOTE, ":", QUOTE, "o", "k", QUOTE, ",", QUOTE, "f",
      "u", "l", "l", "T", "e", "x", "t", QUOTE, ":", QUOTE, "o", "k", QUOTE, "}">>
TxtPartial ==
    <<"{", QUOTE, "s", "u", "m", "m", "a", "r", "y", QUOTE, ":", QUOTE, "o", "k", QUOTE, "}">>
TxtRepair ==
    <<"{", QUOTE, "s", "u", "m", "m", "a", "r", "y", QUOTE, ":", QUOTE, "a", " ", QUOTE, "b",
      QUOTE, " ", "c", QUOTE, ",", QUOTE, "s", "e", "n", "t", "i", "m", "e", "n", "t", QUOTE,
      ":", "1", ",", QUOTE, "f", "u", "l", "l", "T", "e", "x", "t", QUOTE, ":", QUOTE, "t",
      QUOTE, "}">>
TxtNotJson ==
    <<"n", "o", "t", " ", "j", "s", "o", "n", " ", "a", "t", " ", "a", "l", "l">>
TxtBlank ==
    <<" ", " ">>
TxtQuote ==
    <<"{", QUOTE, "p", "r", "i", "c", "e", QUOTE, ":", "2", "0", "0", "1", ",", QUOTE, "c",
      "h", "a", "n", "g", "e", "V", "a", "l", "u", "e", QUOTE, ":", "1", ",", QUOTE, "c", "h",
      "a", "n", "g", "e", "P", "e", "r", "c", "e", "n", "t", "a", "g", "e", QUOTE, ":", "1",
      ",", QUOTE, "c", "u", "r", "r", "e", "n", "c", "y", QUOTE, ":", QUOTE, "U", "S", "D",
      QUOTE, "}">>
TxtPriceNull ==
    <<"{", QUOTE, "p", "r", "i", "c", "e", QUOTE, ":", "n", "u", "l", "l", ",", QUOTE, "c",
      "u", "r", "r", "e", "n", "c", "y", QUOTE, ":", QUOTE, "U", "S", "D", QUOTE, "}">>
TxtNull ==
    <<"n", "u", "l", "l">>
TxtWrapped ==
    <<"H", "e", "r", "e", ":", " ", "{", QUOTE, "p", "r", "i", "c", "e", QUOTE, ":", "5", "0",
      ",", QUOTE, "c", "u", "r", "r", "e", "n", "c", "y", QUOTE, ":", QUOTE, "U", "S", "D",
      QUOTE, "}", " ", "o", "k">>
TxtLists ==
    <<"{", QUOTE, "a", "s", "s", "e", "t", "s", QUOTE, ":", "[", "{", QUOTE, "p", "e", "R",
      "a", "t", "i", "o", QUOTE, ":", QUOTE, "1", "2", ".", "5", "%", QUOTE, "}", "]", ",",
      QUOTE, "v", "e", "c", "t", "o", "r", "s", QUOTE, ":", "[", QUOTE, "a", QUOTE, "]", ",",
      QUOTE, "a", "l", "t", "e", "r", "n", "a", "t", "i", "v", "e", "s", QUOTE, ":", "[", "{",
      QUOTE, "n", "a", "m", "e", QUOTE, ":", QUOTE, "n", QUOTE, "}", "]", "}">>

\* getAvailableTextModels, line 776.
Engines == {"gemini-2.5-flash", "gemini-2.5-pro"}

Meta(p, c) == [has |-> TRUE, p |-> p, c |-> c, t |-> p + c]
NoMeta == [has |-> FALSE, p |-> 0, c |-> 0, t |-> 0]

TextResponse(txt, meta) == [hasText |-> TRUE, text |-> txt, meta |-> meta, chunks |-> <<>>]
\* A response with no text part: response.text is undefined.
NoTextResponse == [hasText |-> FALSE, text |-> <<>>, meta |-> NoMeta, chunks |-> <<>>]

AnalysisResponses ==
    { TextResponse(TxtAnalysis, Meta(3, 4)), TextResponse(TxtPartial, Meta(2, 1)),
      TextResponse(TxtRepair, Meta(3, 5)), TextResponse(TxtNotJson, Meta(1, 1)),
      TextResponse(TxtBlank, NoMeta), NoTextResponse }

PriceResponses ==
    { TextResponse(TxtQuote, Meta(3, 4)), TextResponse(TxtPriceNull, Meta(2, 1)),
      TextResponse(TxtWrapped, Meta(3, 5)), TextResponse(TxtNotJson, Meta(1, 1)),
      TextResponse(TxtBlank, NoMeta), TextResponse(TxtNull, Meta(1, 2)) }

ListResponses ==
    { TextResponse(TxtLists, Meta(3, 4)), TextResponse(TxtPartial, Meta(2, 1)),
      TextResponse(TxtNotJson, Meta(1, 1)), TextResponse(TxtBlank, NoMeta),
      TextResponse(TxtNull, Meta(1, 2)), NoTextResponse }

\* The responses the model explores for each operation.
ResponsesFor(op) ==
    IF op \in {"getAssetAnalysis", "getGlobalAnalysis", "askAboutAnalysis", "askWithWebSearch"}
    THEN AnalysisResponses
    ELSE IF op \in {"getAssetQuote", "getAssetPriceOnDate", "getAssetFuturePricePrediction",
                    "getLimitBuyPrice"}
    THEN PriceResponses
    ELSE ListResponses

\* The stack of an error raised by the SDK or by fetch.
SdkStack ==
    << Frame(FALSE, FALSE, "raw", "Error", ""),
       Frame(TRUE, FALSE, "named", "fetchPrices", "PortfolioView.tsx:490") >>

\* Values generateContent may reject with.
Rejections ==
    { NewError(<<"RESOURCE_EXHAUSTED">>, SdkStack),
      NewTypeError(<<"Failed to fetch">>, <<>>),
      NewTypeError(<<"Load failed">>, <<>>) }

\* The values of currentPrice getAssetPriceOnDate is called with.
CurrentPrices == {JNull, JNum(100, 0)}

(***************************************************************************)
(* The facade as a state machine: invocations in flight                    *)
(***************************************************************************)
NumInvocations == 2
Slots == 1..NumInvocations

NoClient == [set |-> FALSE, apiKey |-> ""]
Client(apiKey) == [set |-> TRUE, apiKey |-> apiKey]

\* The arguments initializeGemini is called with ("null" stands for null).
ApiKeys == {"null", "", "key-1"}

NoSettled == [rejected |-> FALSE, resp |-> NoTextResponse, error |-> NewError(<<>>, <<>>)]
Resolved(resp) == [rejected |-> FALSE, resp |-> resp, error |-> NewError(<<>>, <<>>)]
Rejected(error) == [rejected |-> TRUE, resp |-> NoTextResponse, error |-> error]

IdleSlot ==
    [pc |-> "idle", op |-> "", engine |-> "", cur |-> JNull, client |-> NoClient,
     calls |-> 0, settled |-> NoSettled, out |-> Completed(Undefined, UsageOf(NoTextResponse))]

\* Lines 6-12.
initializeGemini(apiKey) ==
    IF apiKey \notin {"null", ""} THEN Client(apiKey) ELSE NoClient

ApiKeyNotSetMsg == "La clave API de Gemini no ha sido configurada. Por favor, configurala en la seccion de Ajustes."

\* getClient without the test of line 15, handing out whatever the module
\* variable holds: the variant C28 tells from the code.
getClient_Unchecked(module_ai) == [ok |-> TRUE, client |-> module_ai]

\* Lines 14-19: [ok |-> TRUE, client] or the error thrown.
getClient(module_ai) ==
    IF ~module_ai.set
    THEN [ok |-> FALSE, err |-> ApiKeyNotSetError(<<ApiKeyNotSetMsg>>, ServiceStack)]
    ELSE [ok |-> TRUE, client |-> module_ai]

\* An operation that calls generateContent once more whenever its attempt
\* ends in an error: the variant C3 tells from the code.
Reissues_RetryOnError(op, out) == IF out.threw THEN 1 ELSE 0

\* The generateContent calls an operation issues again once its first call has
\* settled with outcome `out`: none, every catch block rethrows (lines 251-253,
\* 341-343, 662-666, ...) and no operation loops.
Reissues(op, out) == 0

FacadeOff == /\ ai = NoClient
             /\ inv = [i \in Slots |-> IdleSlot]

ParseOff == /\ text = <<>>
            /\ label = ""
            /\ pstage = "off"
            /\ jsonText = <<>>
            /\ presult = [ok |-> FALSE, err |-> NewError(<<>>, <<>>), log |-> <<>>]
            /\ plog = <<>>
            /\ scan = ScanOff

ClassOff == /\ caught = NewError(<<>>, <<>>)
            /\ cargs = [defaultMessage |-> "", model |-> ""]
            /\ cres = Returned(NewError(<<>>, <<>>), NewError(<<>>, <<>>))
            /\ kinds = <<>>

NumOff == /\ nvalue = Undefined
          /\ nres = <<>>

\* analysisState.error: null, one of the two refusals of lines 206-214, or
\* the message of line 253 with one entry per failed analysis.
NoViewError == [head |-> "null", failures |-> <<>>]

\* The market view before any analysis: analysisState as the application
\* creates it, no call made.
MarketOff == /\ mview = [isLoading |-> FALSE, results |-> <<>>, error |-> NoViewError,
                          openSectors |-> <<>>]
             /\ mcalls = <<>>
             /\ mreports = <<>>
             /\ musage = <<>>
             /\ mrun = [pc |-> "idle", engine |-> ""]

\* The state of the module after loading: no client (line 4), nothing in flight.
\* The application before any search (App.tsx, lines 104-108), no call made,
\* and an analysis session with no vector.
NoAppError == [title |-> <<>>, message |-> <<>>]
AppOff == /\ app = [isQuotaExhausted |-> FALSE, error |-> NoAppError, activeView |-> "analysis",
                     tokenUsageHistory |-> <<>>, isLoadingPrices |-> FALSE,
                     isImporting |-> FALSE]
          /\ acalls = <<>>
          /\ session = [isAnalyzingAll |-> FALSE, analysisVectors |-> <<>>]

Init == FacadeOff /\ ParseOff /\ ClassOff /\ NumOff /\ MarketOff /\ AppOff

\* The application calls initializeGemini with the stored key, null or "".
InitializeGemini(apiKey) ==
    /\ ai' = initializeGemini(apiKey)
    /\ UNCHANGED <<inv, parseVars, classVars, numVars, marketVars, appVars>>

\* A view calls operation `op`: the code up to the await of generateContent.
\* Without a client getClient throws inside the try block and the catch
\* block runs at once.
Invoke(i, op, engine, cur) ==
    /\ inv[i].pc = "idle"
    /\ (op # "getAssetPriceOnDate" => cur = JNull)
    /\ LET c == getClient(ai)
           failed == IF op = "getAssetFuturePricePrediction"
                     THEN PredictionCheck(CatchBlock(op, c.err, engine))
                     ELSE CatchBlock(op, c.err, engine)
       IN  inv' = [inv EXCEPT ![i] =
                     IF c.ok
                     THEN [IdleSlot EXCEPT !.pc = "awaiting", !.op = op, !.engine = engine,
                                           !.cur = cur, !.client = c.client, !.calls = 1]
                     ELSE [IdleSlot EXCEPT !.pc = "done", !.op = op, !.engine = engine,
                                           !.cur = cur, !.out = failed]]
    /\ UNCHANGED <<ai, parseVars, classVars, numVars, marketVars, appVars>>

\* The rest of an invocation, run when its upstream call settles.
Finish(i, settled) ==
    /\ inv' = Bind(Settle(inv[i].op, inv[i].engine, inv[i].cur, settled), LAMBDA out :
                [inv EXCEPT ![i].settled = settled,
                            ![i].out = out,
                            ![i].calls = @ + Reissues(inv[i].op, out),
                            ![i].pc = IF Reissues(inv[i].op, out) > 0 THEN "awaiting"
                                      ELSE "done"])
    /\ UNCHANGED <<ai, parseVars, classVars, numVars, marketVars, appVars>>

\* generateContent resolves with a response.
UpstreamResolve(i, resp) ==
    /\ inv[i].pc = "awaiting"
    /\ resp \in ResponsesFor(inv[i].op)
    /\ Finish(i, Resolved(resp))

\* generateContent rejects.
UpstreamReject(i, error) ==
    /\ inv[i].pc = "awaiting"
    /\ Finish(i, Rejected(error))

Next ==
    \/ \E k \in ApiKeys : InitializeGemini(k)
    \/ \E i \in Slots, op \in Operations, e \in Engines, cur \in CurrentPrices : Invoke(i, op, e, cur)
    \/ \E i \in Slots, resp \in AnalysisResponses \cup PriceResponses \cup ListResponses :
          UpstreamResolve(i, resp)
    \/ \E i \in Slots, error \in Rejections : UpstreamReject(i, error)

Spec == Init /\ [][Next]_vars

(***************************************************************************)
(* The price operations on their own: _getAssetPrice over a range of        *)
(* prices in the response and of current prices                            *)
(***************************************************************************)
PricePrefix == <<"{", QUOTE, "p", "r", "i", "c", "e", QUOTE, ":">>
PriceSuffix ==
    <<",", QUOTE, "c", "u", "r", "r", "e", "n", "c", "y", QUOTE, ":", QUOTE, "U", "S", "D",
      QUOTE, "}">>

\* The response text {"price":<literal>,"currency":"USD"}.
PriceText(literal) == PricePrefix \o literal \o PriceSuffix

\* The price literals a model may answer with.
PriceLiterals ==
    { <<"2", "0", "0", "1">>, <<"2", "0", "0", "0">>, <<"4", ".", "9">>, <<"5">>,
      <<"5", "0">>, <<"0">>, <<"-", "5">>, <<"2", "0", "0", "0", ".", "5">>,
      <<"4", ".", "9", "9">>, <<"1", "0">>, <<"0", ".", "0", "2">> }

GuardResponses == { TextResponse(PriceText(l), Meta(3, 4)) : l \in PriceLiterals }

\* The current prices a view passes to getAssetPriceOnDate: none, 100, 1, 0.5
\* and 1.5.
GuardCurrentPrices == {JNull, JNum(100, 0), JNum(1, 0), JNum(5, 1), JNum(15, 1)}

\* generateContent resolves the call of slot i with resp, whatever the operation.
Resolve(i, resp) ==
    /\ inv[i].pc = "awaiting"
    /\ Finish(i, Resolved(resp))

NextPrice ==
    \/ \E k \in ApiKeys : InitializeGemini(k)
    \/ \E i \in Slots, op \in PriceOperations, e \in Engines, cur \in GuardCurrentPrices :
          Invoke(i, op, e, cur)
    \/ \E i \in Slots, resp \in GuardResponses : Resolve(i, resp)

SpecPrice == Init /\ [][NextPrice]_vars

(***************************************************************************)
(* The sector screen on its own: analyzeMarketSector over payloads whose   *)
(* numeric fields hold values of several types                             *)
(***************************************************************************)
\* The text "key":value of an object member.
MemberText(key, valueText) == <<QUOTE>> \o key \o <<QUOTE, ":">> \o valueText

\* What a model may write in a numeric field: "12.5%", 12.5, "garbage", null,
\* true, "." and [1].
FieldLiterals ==
    { <<QUOTE, "1", "2", ".", "5", "%", QUOTE>>, <<"1", "2", ".", "5">>,
      <<QUOTE, "g", "a", "r", "b", "a", "g", "e", QUOTE>>, <<"n", "u", "l", "l">>,
      <<"t", "r", "u", "e">>, <<QUOTE, ".", QUOTE>>, <<"[", "1", "]">> }

AverageLiterals ==
    { <<QUOTE, "1", "2", ".", "5", "%", QUOTE>>, <<"1", "2", ".", "5">>, <<QUOTE, ".", QUOTE>> }

\* One asset: {"name":"n","peRatio":v,"eps":v}, without dividendYield.
AssetText(v) ==
    <<"{">> \o MemberText(K_name, <<QUOTE, "n", QUOTE>>) \o <<",">> \o MemberText(K_peRatio, v)
        \o <<",">> \o MemberText(K_eps, v) \o <<"}">>

\* The assets member of a payload: absent (<<>>), an empty list, null, a
\* string, a list that holds null, or a list of one asset.
AssetsParts ==
    { <<>>, MemberText(K_assets, <<"[", "]">>), MemberText(K_assets, <<"n", "u", "l", "l">>),
      MemberText(K_assets, <<QUOTE, "x", QUOTE>>),
      MemberText(K_assets, <<"[", "n", "u", "l", "l", "]">>) }
        \cup { MemberText(K_assets, <<"[">> \o AssetText(v) \o <<"]">>) : v \in FieldLiterals }

\* The sectorAverage member: absent, null, or an object with averageEps.
AverageParts ==
    { <<>>, MemberText(K_sectorAverage, <<"n", "u", "l", "l">>) }
        \cup { MemberText(K_sectorAverage, <<"{">> \o MemberText(K_averageEps, v) \o <<"}">>) :
                 v \in AverageLiterals }

SectorText(assetsPart, averagePart) ==
    <<"{">> \o MemberText(<<"t", "i", "t", "l", "e">>, <<QUOTE, "t", QUOTE>>)
        \o (IF assetsPart = <<>> THEN <<>> ELSE <<",">> \o assetsPart)
        \o (IF averagePart = <<>> THEN <<>> ELSE <<",">> \o averagePart)
        \o <<"}">>

SectorResponses ==
    { TextResponse(SectorText(a, g), Meta(3, 4)) : a \in AssetsParts, g \in AverageParts }

NextSector ==
    \/ \E k \in ApiKeys : InitializeGemini(k)
    \/ \E i \in Slots, e \in Engines : Invoke(i, "analyzeMarketSector", e, JNull)
    \/ \E i \in Slots, resp \in SectorResponses : Resolve(i, resp)
    \/ \E i \in Slots, error \in Rejections : UpstreamReject(i, error)

SpecSector == Init /\ [][NextSector]_vars

(***************************************************************************)
(* The application: handleApiError, handleTokenUsage and the handlers that *)
(* call the facade (App.tsx, constants.ts, Disclaimer.tsx, part_002)       *)
(***************************************************************************)
ApiKeyRequiredTitle == "Clave API Requerida"
QuotaTitleHead == "Cuota Excedida ("
QuotaFallbackHead == "Se ha excedido la cuota para el motor de IA subyacente ("
QuotaFallbackTail == "). Todas las funciones de IA estan desactivadas. Por favor, revisa tu plan y facturacion en Google."
NotFoundTitle == "Activo no Encontrado"
NotFoundMsg == "No se pudo encontrar el activo. Intentalo de nuevo con otro nombre o ticker."

\* App.tsx, lines 188-201: the state after handleApiError(e, title, message).
\* Every value the facade throws is an Error, so that the last branch shows
\* e.message.
handleApiError(a, e, title, message) ==
    IF InstanceOf(e, "ApiKeyNotSetError")
    THEN [a EXCEPT !.error = [title |-> <<ApiKeyRequiredTitle>>, message |-> e.msg],
                   !.activeView = "settings"]
    ELSE IF InstanceOf(e, "QuotaExceededError")
    THEN [a EXCEPT !.isQuotaExhausted = TRUE,
                   !.error = [title |-> <<QuotaTitleHead, e.engine, ")">>,
                              message |-> IF e.msg # <<>> THEN e.msg
                                          ELSE <<QuotaFallbackHead, e.engine, QuotaFallbackTail>>]]
    ELSE [a EXCEPT !.error = [title |-> title,
                              message |-> IF InstanceOf(e, "Error") THEN e.msg ELSE message]]

\* App.tsx, lines 157-180: the state after handleTokenUsage({...usage, model}).
\* The record's cost is a function of its token counts and its model; its
\* timestamp and view are left out.
handleTokenUsage(a, usage, model) ==
    IF usage.totalTokens = 0 THEN a
    ELSE [a EXCEPT !.tokenUsageHistory =
            Append(@, [tokens |-> usage.totalTokens, promptTokens |-> usage.promptTokens,
                       candidateTokens |-> usage.candidateTokens, model |-> model])]

\* App.tsx, line 121 (the effect of lines 125-127 keeps the client in step
\* with apiKey).
IsApiBlocked(a, module_ai) == a.isQuotaExhausted \/ ~module_ai.set

\* The handlers and the facade operations each awaits, in order.
\* getAssetCurrentPrice, which session initialization awaits first, is not in
\* geminiService.ts: the quote operation stands for it.
Sites == {"search", "initialize", "vector", "global", "chat", "websearch", "refresh", "import"}

SiteOps(site) ==
    CASE site = "search" -> <<"getAssetInfo">>
      [] site = "initialize" -> <<"getAssetQuote", "getAnalysisVectorsForAsset">>
      [] site = "vector" -> <<"getAssetAnalysis">>
      [] site = "global" -> <<"getGlobalAnalysis">>
      [] site = "chat" -> <<"askAboutAnalysis">>
      [] site = "websearch" -> <<"askWithWebSearch">>
      [] site = "refresh" -> <<"getAssetQuote">>
      [] site = "import" -> <<"getAssetInfo">>

\* The sites whose catch block calls handleApiError / onApiError: App.tsx 223,
\* constants.ts 225 and 284, Disclaimer.tsx 136 and 175.  The catch blocks of
\* constants.ts 157-163 and 750-752 and of part_002 497-500 do not.
ReportsError(site) == site \in {"search", "vector", "global", "chat", "websearch"}

SiteTitle(site) ==
    CASE site = "search" -> <<"Error de Busqueda">>
      [] site = "vector" -> <<"Error en: ", "vector">>
      [] site = "global" -> <<"Error en Vision Global">>
      [] site = "chat" -> <<"Error en Pregunta a IA">>
      [] site = "websearch" -> <<"Error en Busqueda Web">>
      [] OTHER -> <<>>

\* The sites the views keep disabled while isApiBlocked holds (SearchBar.tsx
\* 16-21, Disclaimer.tsx 111, 150 and 292, constants.ts 884); session
\* initialization and the price refresh run from effects.
Guarded(site) == site \notin {"initialize", "refresh"}

MaxAppCalls == 2

\* The engine the application runs with, and the answers its calls get: a
\* payload of the expected shape, a text that is no JSON, and a blank text
\* without usage metadata.
AppEngines == {"gemini-2.5-flash"}
AppResponses ==
    { TextResponse(TxtAnalysis, Meta(3, 4)), TextResponse(TxtQuote, Meta(3, 4)),
      TextResponse(TxtLists, Meta(3, 4)), TextResponse(TxtNotJson, Meta(1, 1)),
      TextResponse(TxtBlank, NoMeta) }
AppResponsesFor(op) == AppResponses \cap ResponsesFor(op)

NewCall(site, engine) ==
    [site |-> site, engine |-> engine, step |-> 1, status |-> "pending", out |-> IdleSlot.out]

\* The catch block of a site.
SiteCatch(call, out, a) ==
    [call |-> [call EXCEPT !.status = "failed", !.out = out],
     app |-> IF ReportsError(call.site)
             THEN handleApiError(a, out.err, SiteTitle(call.site), out.err.msg)
             ELSE a]

\* A site reaches the await of its step-th operation: without a client the
\* operation throws at once and the site's catch block runs.
SiteAwait(call, step, module_ai, a) ==
    IF getClient(module_ai).ok
    THEN [call |-> [call EXCEPT !.step = step, !.status = "pending"], app |-> a]
    ELSE SiteCatch([call EXCEPT !.step = step],
                   CatchBlock(SiteOps(call.site)[step], getClient(module_ai).err, call.engine), a)

\* App.tsx, lines 217-221: what handleSearch does with the list it got.
SearchShown(a, data) ==
    IF Truthy(data) /\ data.t \in {"arr", "str"} /\ Len(data.v) > 0 THEN a
    ELSE [a EXCEPT !.error = [title |-> <<NotFoundTitle>>, message |-> <<NotFoundMsg>>]]

\* The code of a site after an await that did not throw: the usage is passed
\* to onTokenUsage (App.tsx 216, constants.ts 113, 133, 217, 267 and 745,
\* Disclaimer.tsx 123 and 164, part_002 491), then the next await or the end.
SiteContinue(call, out, module_ai, a) ==
    Bind(handleTokenUsage(a, out.usage, call.engine), LAMBDA counted :
      IF call.step < Len(SiteOps(call.site))
      THEN SiteAwait([call EXCEPT !.out = out], call.step + 1, module_ai, counted)
      ELSE [call |-> [call EXCEPT !.status = "done", !.out = out],
            app |-> IF call.site = "search" THEN SearchShown(counted, out.data) ELSE counted])

\* A handler starts: handleSearch clears the error first (App.tsx 210).
AppCall(site, engine) ==
    /\ Len(acalls) < MaxAppCalls
    /\ (Guarded(site) => ~IsApiBlocked(app, ai))
    /\ Bind(SiteAwait(NewCall(site, engine), 1, ai,
                      IF site = "search" THEN [app EXCEPT !.error = NoAppError] ELSE app),
            LAMBDA r : /\ acalls' = Append(acalls, r.call)
                       /\ app' = r.app)
    /\ UNCHANGED <<ai, inv, parseVars, classVars, numVars, marketVars, session>>

\* The upstream call a site awaits settles: the rest of the facade operation
\* runs, then the site's code up to its next await or its end.
AppSettles(k, settled) ==
    /\ k \in DOMAIN acalls
    /\ acalls[k].status = "pending"
    /\ settled.rejected \/ settled.resp \in AppResponsesFor(SiteOps(acalls[k].site)[acalls[k].step])
    /\ Bind(Settle(SiteOps(acalls[k].site)[acalls[k].step], acalls[k].engine, JNull, settled),
            LAMBDA out :
              Bind(IF out.threw THEN SiteCatch(acalls[k], out, app)
                   ELSE SiteContinue(acalls[k], out, ai, app),
                   LAMBDA r : /\ acalls' = [acalls EXCEPT ![k] = r.call]
                              /\ app' = r.app))
    /\ UNCHANGED <<ai, inv, parseVars, classVars, numVars, marketVars, session>>

(***************************************************************************)
(* The market view: handleAnalyze fans out one analyzeMarketSector call    *)
(* per sector and criterion and joins them (MarketView.tsx, lines 205-274) *)
(***************************************************************************)
ApiBlockedMsg == "Las funciones de IA estan desactivadas por limite de cuota."
NoCriteriaMsg == "Por favor, defina al menos un criterio de analisis."
SomeFailedHead == "Algunos analisis fallaron: "
UnknownErrorMsg == "Error desconocido"
MarketErrorTitle == "Error de Analisis de Mercado: "

\* The sector lists and criteria lists the assistant may submit.  One
\* criterion is longer than the twenty characters line 252 shows of it.
CritShort == <<"P", "E", "R">>
CritLong ==
    <<"d", "i", "v", "i", "d", "e", "n", "d", "o", " ", "a", "l", "t", "o", " ", "y", " ",
      "e", "s", "t", "a", "b", "l", "e">>
SectorLists == {<<>>, <<"Tecnologia">>, <<"Tecnologia", "Energia">>}
CriteriaLists == {<<>>, <<CritShort>>, <<CritLong, CritShort>>}

\* What the model answers to one analysis: a payload with one asset, a payload
\* with an empty asset list, a payload with one asset and no usage metadata,
\* and a text that is no JSON.
MarketResponses ==
    { TextResponse(SectorText(MemberText(K_assets, <<"[">> \o AssetText(<<"1", "2", ".", "5">>) \o <<"]">>), <<>>),
                   Meta(3, 4)),
      TextResponse(SectorText(MemberText(K_assets, <<"[", "]">>), <<>>), Meta(2, 1)),
      TextResponse(SectorText(MemberText(K_assets, <<"[">> \o AssetText(<<"1", "2", ".", "5">>) \o <<"]">>), <<>>),
                   NoMeta),
      TextResponse(TxtNotJson, Meta(1, 1)) }

MarketRejections ==
    { NewError(<<"RESOURCE_EXHAUSTED">>, SdkStack), NewTypeError(<<"Failed to fetch">>, <<>>) }

\* Lines 220-226: the promise of one pair, with the .then and .catch that turn
\* either ending of the call into a value.  Without a client the call runs
\* into its catch block before it awaits anything.
Pending(sector, criterion, engine) ==
    [status |-> "pending", sector |-> sector, criterion |-> criterion, engine |-> engine,
     out |-> IdleSlot.out]

Wrapped(call, out) ==
    [call EXCEPT !.status = IF out.threw THEN "rejected" ELSE "fulfilled", !.out = out]

StartCall(sector, criterion, engine, module_ai) ==
    IF getClient(module_ai).ok THEN Pending(sector, criterion, engine)
    ELSE Wrapped(Pending(sector, criterion, engine),
                 CatchBlock("analyzeMarketSector", getClient(module_ai).err, engine))

\* Lines 220-226: sectors.flatMap(sector => criteria.map(...)).
FanOut(sectors, criteria, engine, module_ai) ==
    [k \in 1..(Len(sectors) * Len(criteria)) |->
        StartCall(sectors[((k - 1) \div Len(criteria)) + 1],
                  criteria[((k - 1) % Len(criteria)) + 1], engine, module_ai)]

\* A join that stops waiting as soon as one call has failed, as Promise.all
\* does over promises that can reject: the variant C20 tells from the code.
AllSettled_FailFast(calls) ==
    \/ \A k \in DOMAIN calls : calls[k].status # "pending"
    \/ \E k \in DOMAIN calls : calls[k].status = "rejected"

\* Line 228: Promise.all over promises that cannot reject resolves once every
\* one of them has a value.
AllSettled(calls) == \A k \in DOMAIN calls : calls[k].status # "pending"

\* Lines 230-244: the two lists the loop fills.
successfulResults(results) == SelectSeq(results, LAMBDA r : r.status = "fulfilled")
failedAnalyses(results) == SelectSeq(results, LAMBDA r : r.status = "rejected")

\* Lines 233, 238-240: the running sums over the fulfilled results.
RECURSIVE totalUsage(_)
totalUsage(successes) ==
    IF successes = <<>> THEN [promptTokens |-> 0, candidateTokens |-> 0, totalTokens |-> 0]
    ELSE Bind(totalUsage(Tail(successes)), LAMBDA rest :
           [promptTokens |-> Head(successes).out.usage.promptTokens + rest.promptTokens,
            candidateTokens |-> Head(successes).out.usage.candidateTokens + rest.candidateTokens,
            totalTokens |-> Head(successes).out.usage.totalTokens + rest.totalTokens])

\* Line 252: one entry of the message, `Error en <sector> (<criterion, at most
\* twenty characters>...): <message>`.
errorMessage(f) ==
    [sector |-> f.sector,
     criterion |-> Substring(f.criterion, 0, Min(20, Len(f.criterion))),
     message |-> IF f.out.err.msg # <<>> THEN f.out.err.msg ELSE <<UnknownErrorMsg>>]

\* Lines 250-255: null, or the head and the entries joined by '; '.
finalError(failed) ==
    IF Len(failed) > 0
    THEN [head |-> SomeFailedHead, failures |-> [k \in DOMAIN failed |-> errorMessage(failed[k])]]
    ELSE NoViewError

\* Line 254: the onApiError call made for one failure.
ApiErrorCall(f) ==
    [error |-> f.out.err, title |-> <<MarketErrorTitle, f.sector>>, message |-> f.out.err.msg]

\* Line 261: { ...data, criterion }.
WithCriterion(data, criterion) ==
    JObj(PutMember(Spread(data), <<"c", "r", "i", "t", "e", "r", "i", "o", "n">>, JStr(criterion)))

\* Lines 260-261: the entry is pushed under its sector, which gets a list
\* when it has none.  groupedResults is the list of its keys in insertion
\* order, each with its list.
PushUnder(grouped, sector, item) ==
    IF \E g \in DOMAIN grouped : grouped[g].sector = sector
    THEN [g \in DOMAIN grouped |->
            IF grouped[g].sector = sector
            THEN [grouped[g] EXCEPT !.items = Append(@, item)] ELSE grouped[g]]
    ELSE Append(grouped, [sector |-> sector, items |-> <<item>>])

\* Line 259: data.assets.length > 0.
HasAssets(data) == Len(Field(data, K_assets).v) > 0

\* Lines 257-263.
RECURSIVE groupedResults(_, _)
groupedResults(grouped, successes) ==
    IF successes = <<>> THEN grouped
    ELSE groupedResults(
           IF HasAssets(Head(successes).out.data)
           THEN PushUnder(grouped, Head(successes).sector,
                          WithCriterion(Head(successes).out.data, Head(successes).criterion))
           ELSE grouped,
           Tail(successes))

\* Line 265.
newOpenSectors(grouped) == IF Len(grouped) > 0 THEN <<grouped[1].sector>> ELSE <<>>

\* Lines 205-228: handleAnalyze up to the await.  The assistant that calls it
\* is hidden by line 216, so that one analysis runs at a time.
HandleAnalyze(sectorsForAnalysis, criteriaForAnalysis, isApiBlocked, currentEngine) ==
    /\ mrun.pc = "idle"
    /\ IF isApiBlocked
       THEN /\ mview' = [mview EXCEPT !.error = [head |-> ApiBlockedMsg, failures |-> <<>>]]
            /\ UNCHANGED <<mcalls, mrun>>
       ELSE IF Len(criteriaForAnalysis) = 0
       THEN /\ mview' = [mview EXCEPT !.error = [head |-> NoCriteriaMsg, failures |-> <<>>]]
            /\ UNCHANGED <<mcalls, mrun>>
       ELSE /\ mview' = [isLoading |-> TRUE, results |-> <<>>, error |-> NoViewError,
                         openSectors |-> <<>>]
            /\ mcalls' = FanOut(sectorsForAnalysis, criteriaForAnalysis, currentEngine, ai)
            /\ mrun' = [pc |-> "awaiting", engine |-> currentEngine]
    /\ UNCHANGED <<ai, inv, parseVars, classVars, numVars, mreports, musage, appVars>>

\* The upstream call of one pair settles and the rest of analyzeMarketSector
\* runs, then the .then or the .catch of lines 223-224.
CallSettles(k, settled) ==
    /\ k \in DOMAIN mcalls
    /\ mcalls[k].status = "pending"
    /\ mcalls' = [mcalls EXCEPT ![k] =
                    Wrapped(@, Settle("analyzeMarketSector", mcalls[k].engine, JNull, settled))]
    /\ UNCHANGED <<ai, inv, parseVars, classVars, numVars, mview, mreports, musage, mrun, appVars>>

\* Line 254: failedAnalyses.forEach(f => onApiError(...)), onApiError being
\* the application's handleApiError (part_014, line 172).
RECURSIVE ReportAll(_, _)
ReportAll(a, failed) ==
    IF failed = <<>> THEN a
    ELSE ReportAll(handleApiError(a, Head(failed).out.err,
                                  <<MarketErrorTitle, Head(failed).sector>>,
                                  Head(failed).out.err.msg),
                   Tail(failed))

\* Lines 228-267: handleAnalyze from the await on.  Nothing in these lines
\* throws: every fulfilled value carries a usage and a data whose assets is a
\* list (lines 832-843 of the service), every reason is an Error.
Join ==
    /\ mrun.pc = "awaiting"
    /\ AllSettled(mcalls)
    /\ musage' = Bind(totalUsage(successfulResults(mcalls)), LAMBDA total :
                   IF total.totalTokens > 0
                   THEN Append(musage, [usage |-> total, model |-> mrun.engine])
                   ELSE musage)
    /\ mreports' = mreports \o Bind(failedAnalyses(mcalls), LAMBDA failed :
                                 [k \in DOMAIN failed |-> ApiErrorCall(failed[k])])
    /\ mview' = Bind(groupedResults(<<>>, successfulResults(mcalls)), LAMBDA grouped :
                  [isLoading |-> FALSE, results |-> grouped,
                   error |-> finalError(failedAnalyses(mcalls)),
                   openSectors |-> newOpenSectors(grouped)])
    /\ app' = Bind(totalUsage(successfulResults(mcalls)), LAMBDA total :
                 ReportAll(IF total.totalTokens > 0
                           THEN handleTokenUsage(app, total, mrun.engine) ELSE app,
                           failedAnalyses(mcalls)))
    /\ mrun' = [mrun EXCEPT !.pc = "done"]
    /\ UNCHANGED <<ai, inv, parseVars, classVars, numVars, mcalls, acalls, session>>

NextMarket ==
    \/ \E k \in ApiKeys : InitializeGemini(k)
    \/ \E s \in SectorLists, c \in CriteriaLists, b \in BOOLEAN, e \in Engines :
          HandleAnalyze(s, c, b, e)
    \/ \E k \in DOMAIN mcalls, resp \in MarketResponses : CallSettles(k, Resolved(resp))
    \/ \E k \in DOMAIN mcalls, error \in MarketRejections : CallSettles(k, Rejected(error))
    \/ Join

SpecMarket == Init /\ [][NextMarket]_vars

\* The application with all its call sites: the market view analyses one
\* sector here.
NextApp ==
    \/ \E k \in ApiKeys : InitializeGemini(k)
    \/ \E site \in Sites, e \in AppEngines : AppCall(site, e)
    \/ \E k \in DOMAIN acalls, resp \in AppResponses : AppSettles(k, Resolved(resp))
    \/ \E k \in DOMAIN acalls, error \in Rejections : AppSettles(k, Rejected(error))
    \/ \E e \in AppEngines :
          HandleAnalyze(<<"Tecnologia">>, <<CritShort>>, IsApiBlocked(app, ai), e)
    \/ \E k \in DOMAIN mcalls, resp \in MarketResponses : CallSettles(k, Resolved(resp))
    \/ \E k \in DOMAIN mcalls, error \in MarketRejections : CallSettles(k, Rejected(error))
    \/ Join

SpecApp == Init /\ [][NextApp]_vars

(***************************************************************************)
(* The fan-outs that account for token usage: the market analysis, the     *)
(* price refresh of the portfolio view and the portfolio import            *)
(***************************************************************************)
MaxItems == 2

\* The calls a fan-out of `site` starts, one per item: each runs up to its
\* await, or fails at once without a client (no site of a fan-out reports).
FanCalls(site, n, engine, module_ai) ==
    [k \in 1..n |-> SiteAwait(NewCall(site, engine), 1, module_ai, app).call]

CallsOf(site) == { k \in DOMAIN acalls : acalls[k].site = site }

\* part_002, lines 483-487: fetchPrices up to the await of line 501, for a
\* portfolio of n items (it returns at once for an empty portfolio).
FetchPrices(n, currentEngine) ==
    /\ CallsOf("refresh") = {}
    /\ n >= 1
    /\ app' = [app EXCEPT !.isLoadingPrices = TRUE]
    /\ acalls' = acalls \o FanCalls("refresh", n, currentEngine, ai)
    /\ UNCHANGED <<ai, inv, parseVars, classVars, numVars, marketVars, session>>

\* part_002, lines 501-503: the join of fetchPrices.
FetchPricesJoin ==
    /\ app.isLoadingPrices
    /\ \A k \in CallsOf("refresh") : acalls[k].status # "pending"
    /\ app' = [app EXCEPT !.isLoadingPrices = FALSE]
    /\ UNCHANGED <<ai, inv, parseVars, classVars, numVars, marketVars, acalls, session>>

\* constants.ts, lines 739-754: the import from its tickerPromises on, for a
\* file with n distinct tickers (with no valid row it throws at line 734).
\* The import button is disabled while isApiBlocked or isImporting holds
\* (line 884).
HandleImport(n, currentEngine) ==
    /\ CallsOf("import") = {}
    /\ ~app.isImporting /\ ~IsApiBlocked(app, ai)
    /\ n >= 1
    /\ app' = [app EXCEPT !.isImporting = TRUE]
    /\ acalls' = acalls \o FanCalls("import", n, currentEngine, ai)
    /\ UNCHANGED <<ai, inv, parseVars, classVars, numVars, marketVars, session>>

\* constants.ts, lines 754-792: the join of the import and its finally block.
HandleImportJoin ==
    /\ app.isImporting
    /\ \A k \in CallsOf("import") : acalls[k].status # "pending"
    /\ app' = [app EXCEPT !.isImporting = FALSE]
    /\ UNCHANGED <<ai, inv, parseVars, classVars, numVars, marketVars, acalls, session>>

\* The answers and the failure the calls of these fan-outs get.
UsageMarketResponses ==
    { r \in MarketResponses : r.text # SectorText(MemberText(K_assets, <<"[", "]">>), <<>>) }
UsageRejections == { NewError(<<"RESOURCE_EXHAUSTED">>, SdkStack) }

\* One market analysis of two criteria and one fan-out of the portfolio (a
\* refresh or an import) run side by side.
NextUsage ==
    \/ \E k \in ApiKeys : InitializeGemini(k)
    \/ \E e \in AppEngines :
          HandleAnalyze(<<"Tecnologia">>, <<CritLong, CritShort>>, IsApiBlocked(app, ai), e)
    \/ \E k \in DOMAIN mcalls, resp \in UsageMarketResponses : CallSettles(k, Resolved(resp))
    \/ \E k \in DOMAIN mcalls, error \in UsageRejections : CallSettles(k, Rejected(error))
    \/ Join
    \/ \E n \in 1..MaxItems, e \in AppEngines : acalls = <<>> /\ FetchPrices(n, e)
    \/ FetchPricesJoin
    \/ \E n \in 1..MaxItems, e \in AppEngines : acalls = <<>> /\ HandleImport(n, e)
    \/ HandleImportJoin
    \/ \E k \in DOMAIN acalls, resp \in AppResponses : AppSettles(k, Resolved(resp))
    \/ \E k \in DOMAIN acalls, error \in UsageRejections : AppSettles(k, Rejected(error))

SpecUsage == Init /\ [][NextUsage]_vars

(***************************************************************************)
(* The analysis view: runAnalysis on one vector, and handleAnalyzeAll,     *)
(* which starts runAnalysis on every vector without content and awaits     *)
(* them all (constants.ts, lines 204-250)                                  *)
(***************************************************************************)
NumVectors == 2
MaxVectorCalls == 4

VectorTitles == <<"Fundamental", "Tecnico", "Sentimiento">>

VectorErrorTitle == "Error en: "
VectorFallbackMsg == "No se pudo generar el analisis. Intentalo de nuevo."

\* Line 136: a vector as the initialization of a session leaves it.
NewVector(title) ==
    [title |-> title, content |-> JNull, isLoading |-> FALSE, error |-> JNull, sources |-> <<>>]

\* A session after its initialization, nothing analysed yet.
InitAnalysis ==
    /\ FacadeOff
    /\ ParseOff
    /\ ClassOff
    /\ NumOff
    /\ MarketOff
    /\ app = [isQuotaExhausted |-> FALSE, error |-> NoAppError, activeView |-> "analysis",
              tokenUsageHistory |-> <<>>, isLoadingPrices |-> FALSE, isImporting |-> FALSE]
    /\ acalls = <<>>
    /\ session = [isAnalyzingAll |-> FALSE,
                  analysisVectors |-> [n \in 1..NumVectors |-> NewVector(VectorTitles[n])]]

\* Lines 209-211: setAnalysisVectors(prev => prev.map(v => v.title === vectorTitle ? ... : v)).
MapVector(s, vectorTitle, Update(_)) ==
    [s EXCEPT !.analysisVectors =
        [n \in DOMAIN @ |-> IF @[n].title = vectorTitle THEN Update(@[n]) ELSE @[n]]]

\* What the responses of getAssetAnalysis are drawn from: an analysis, a text
\* that is no JSON, the JSON text null.
VectorResponses ==
    { TextResponse(TxtAnalysis, Meta(3, 4)), TextResponse(TxtNotJson, Meta(1, 1)),
      TextResponse(TxtNull, Meta(1, 2)) }

\* The call of one runAnalysis: `all` tells a call made by handleAnalyzeAll,
\* `joined` that the Promise.all it belongs to has been awaited.
VectorCall(vectorTitle, engine, all) ==
    [site |-> "vector", engine |-> engine, step |-> 1, status |-> "pending", out |-> IdleSlot.out,
     title |-> vectorTitle, all |-> all, joined |-> FALSE]

\* Lines 216-221: runAnalysis after the await, the call having returned `out`.
\* st is [session, app, calls].
RunAnalysisReturned(st, k, out) ==
    [session |-> MapVector(st.session, st.calls[k].title,
                           LAMBDA v : [v EXCEPT !.isLoading = FALSE, !.content = out.data.content,
                                                !.sources = out.data.sources]),
     app |-> handleTokenUsage(st.app, out.usage, st.calls[k].engine),
     calls |-> [st.calls EXCEPT ![k].status = "done", ![k].out = out]]

\* Lines 223-228: the catch block of runAnalysis.
RunAnalysisCaught(st, k, out) ==
    LET vectorErrorMessage == IF InstanceOf(out.err, "Error") THEN out.err.msg
                        ELSE <<VectorFallbackMsg>>
    IN  [session |-> MapVector(st.session, st.calls[k].title,
                               LAMBDA v : [v EXCEPT !.isLoading = FALSE,
                                                    !.error = JStr(vectorErrorMessage)]),
         app |-> handleApiError(st.app, out.err, <<VectorErrorTitle, st.calls[k].title>>,
                                vectorErrorMessage),
         calls |-> [st.calls EXCEPT ![k].status = "failed", ![k].out = out]]

\* Lines 204-216: runAnalysis up to its await.  Without a client
\* getAssetAnalysis rejects before any upstream call, and the catch block runs.
RunAnalysisStart(st, vectorTitle, engine, module_ai, all) ==
    LET loading == MapVector(st.session, vectorTitle,
                             LAMBDA v : [v EXCEPT !.isLoading = TRUE, !.content = JNull,
                                                  !.error = JNull, !.sources = <<>>])
        started == [session |-> loading, app |-> st.app,
                    calls |-> Append(st.calls, VectorCall(vectorTitle, engine, all))]
    IN  IF getClient(module_ai).ok THEN started
        ELSE RunAnalysisCaught(started, Len(started.calls),
                               CatchBlock("getAssetAnalysis", getClient(module_ai).err, engine))

\* Line 238: the titles of the vectors handleAnalyzeAll runs, in order.
vectorsToAnalyze(s) ==
    LET chosen == SelectSeq(s.analysisVectors, LAMBDA v : ~Truthy(v.content) /\ ~v.isLoading)
    IN  [n \in DOMAIN chosen |-> chosen[n].title]

\* Line 243: vectorsToAnalyze.map(vector => runAnalysis(vector.title)).
RECURSIVE StartAll(_, _, _, _)
StartAll(st, titles, engine, module_ai) ==
    IF titles = <<>> THEN st
    ELSE StartAll(RunAnalysisStart(st, Head(titles), engine, module_ai, TRUE),
                  Tail(titles), engine, module_ai)

\* Lines 236 and 239: the calls of handleAnalyzeAll that do nothing.
AnalyzeAllIgnored(s) == s.isAnalyzingAll \/ vectorsToAnalyze(s) = <<>>

\* Lines 231-233 behind the control of Disclaimer.tsx, lines 291-300: the
\* vector is run when it has no content, is not loading and AI is not blocked.
HandleRunSingleAnalysis(n, currentEngine) ==
    /\ n \in DOMAIN session.analysisVectors
    /\ Len(acalls) < MaxVectorCalls
    /\ ~Truthy(session.analysisVectors[n].content)
    /\ ~session.analysisVectors[n].isLoading
    /\ ~IsApiBlocked(app, ai)
    /\ Bind(RunAnalysisStart([session |-> session, app |-> app, calls |-> acalls],
                              session.analysisVectors[n].title, currentEngine, ai, FALSE),
            LAMBDA st : /\ session' = st.session
                        /\ app' = st.app
                        /\ acalls' = st.calls)
    /\ UNCHANGED <<ai, inv, parseVars, classVars, numVars, marketVars>>

\* Lines 235-245: handleAnalyzeAll up to its await.  The control of line 400
\* is disabled while the quota is exhausted.
HandleAnalyzeAll(currentEngine) ==
    /\ ~app.isQuotaExhausted
    /\ Len(acalls) + Len(vectorsToAnalyze(session)) <= MaxVectorCalls
    /\ IF AnalyzeAllIgnored(session)
       THEN UNCHANGED <<session, app, acalls>>
       ELSE Bind(StartAll([session |-> [session EXCEPT !.isAnalyzingAll = TRUE],
                           app |-> app, calls |-> acalls],
                          vectorsToAnalyze(session), currentEngine, ai),
                 LAMBDA st : /\ session' = st.session
                             /\ app' = st.app
                             /\ acalls' = st.calls)
    /\ UNCHANGED <<ai, inv, parseVars, classVars, numVars, marketVars>>

\* The rest of getAssetAnalysis once its upstream call has settled, then lines
\* 216-228 of runAnalysis: the session, the application state and the calls
\* after them.
VectorSettled(k, settled) ==
    Bind(Settle("getAssetAnalysis", acalls[k].engine, JNull, settled), LAMBDA out :
      IF out.threw
      THEN RunAnalysisCaught([session |-> session, app |-> app, calls |-> acalls], k, out)
      ELSE RunAnalysisReturned([session |-> session, app |-> app, calls |-> acalls], k, out))

\* The upstream call of a runAnalysis settles.
VectorSettles(k, settled) ==
    /\ k \in DOMAIN acalls
    /\ acalls[k].status = "pending"
    /\ session' = VectorSettled(k, settled).session
    /\ app' = VectorSettled(k, settled).app
    /\ acalls' = VectorSettled(k, settled).calls
    /\ UNCHANGED <<ai, inv, parseVars, classVars, numVars, marketVars>>

\* The calls of the handleAnalyzeAll that is awaiting its Promise.all.
AwaitedCalls == { k \in DOMAIN acalls : acalls[k].all /\ ~acalls[k].joined }

\* Lines 247-249: every runAnalysis of the round has returned (none rejects),
\* the await of Promise.all ends and the flag is reset.
AnalyzeAllJoin ==
    /\ AwaitedCalls # {}
    /\ \A k \in AwaitedCalls : acalls[k].status # "pending"
    /\ session' = [session EXCEPT !.isAnalyzingAll = FALSE]
    /\ acalls' = [k \in DOMAIN acalls |->
                    IF k \in AwaitedCalls THEN [acalls[k] EXCEPT !.joined = TRUE] ELSE acalls[k]]
    /\ UNCHANGED <<ai, inv, parseVars, classVars, numVars, marketVars, app>>

NextAnalysis ==
    \/ \E k \in ApiKeys : InitializeGemini(k)
    \/ \E n \in 1..NumVectors, e \in AppEngines : HandleRunSingleAnalysis(n, e)
    \/ \E e \in AppEngines : HandleAnalyzeAll(e)
    \/ \E k \in DOMAIN acalls, resp \in VectorResponses : VectorSettles(k, Resolved(resp))
    \/ \E k \in DOMAIN acalls, error \in UsageRejections : VectorSettles(k, Rejected(error))
    \/ AnalyzeAllJoin

SpecAnalysis == InitAnalysis /\ [][NextAnalysis]_vars

\* The event loop runs the continuation of a Promise.all whose promises have
\* all settled.
FairAnalysis == SpecAnalysis /\ WF_vars(AnalyzeAllJoin)

(***************************************************************************)
(* The parse pipeline on its own: a text, extracted and then parsed        *)
(***************************************************************************)
MaxPieces == 4

ParsePieces ==
    { <<"{">>, <<"}">>, <<"[">>, <<"]">>, <<QUOTE>>, <<"1">>, <<"a">>,
      <<QUOTE, "k", QUOTE, ":">> }

\* The texts made of at most MaxPieces pieces.
BoundedTexts ==
    UNION { { Flatten(ps) : ps \in [1..n -> ParsePieces] } : n \in 0..MaxPieces }

\* The response texts of the facade model, and a fenced payload.
TxtFenced ==
    <<BTICK, BTICK, BTICK, "j", "s", "o", "n", LF, "{", QUOTE, "k", QUOTE, ":", "1", "}", LF,
      BTICK, BTICK, BTICK>>

SampleTexts ==
    { TxtAnalysis, TxtPartial, TxtRepair, TxtNotJson, TxtBlank, TxtQuote, TxtPriceNull,
      TxtNull, TxtWrapped, TxtLists, TxtFenced }

ParseInputs == BoundedTexts \cup SampleTexts

\* The operation labels the pipeline is called with.
Labels == {"getAssetAnalysis", "getAssetQuote"}

\* response.text of a response without a text part: undefined.
AbsentText == <<"undefined">>

InitParse ==
    /\ text \in ParseInputs \cup {AbsentText}
    /\ label \in Labels
    /\ pstage = "text"
    /\ jsonText = <<>>
    /\ presult = [ok |-> FALSE, err |-> NewError(<<>>, <<>>), log |-> <<>>]
    /\ plog = <<>>
    /\ scan = ScanOff
    /\ ClassOff
    /\ FacadeOff
    /\ NumOff
    /\ MarketOff
    /\ AppOff

\* Lines 174-199 of cleanAndParseJson: the extractor.  On an undefined text
\* text.trim() of line 174 throws a TypeError.
PExtract ==
    /\ pstage = "text"
    /\ IF text = AbsentText
       THEN /\ pstage' = "raised"
            /\ presult' = [ok |-> FALSE, err |-> TextTypeError, log |-> <<>>]
            /\ plog' = <<"extract", "throw">>
            /\ UNCHANGED jsonText
       ELSE /\ jsonText' = ExtractJson(text)
            /\ pstage' = "extracted"
            /\ plog' = <<"extract">>
            /\ UNCHANGED presult
    /\ UNCHANGED <<text, label, scan, classVars, facadeVars, numVars, marketVars, appVars>>

\* Lines 246 and 285: getAssetInfo and getAnalysisVectorsForAsset trim the
\* text and hand it to safeJsonParse themselves (an empty text is not parsed,
\* and on an undefined text the trim throws before the parse path is entered).
PTrim ==
    /\ pstage = "text"
    /\ text # AbsentText
    /\ Trim(text) # <<>>
    /\ jsonText' = Trim(text)
    /\ pstage' = "extracted"
    /\ plog' = <<"trim">>
    /\ UNCHANGED <<text, label, presult, scan, classVars, facadeVars, numVars, marketVars, appVars>>

\* Line 201 (and 247, 286): safeJsonParse on the text handed over.
PParse ==
    /\ pstage = "extracted"
    /\ presult' = safeJsonParse(jsonText, label, ServiceStack)
    /\ plog' = plog \o presult'.log
    /\ pstage' = "parsed"
    /\ UNCHANGED <<text, label, jsonText, scan, classVars, facadeVars, numVars, marketVars, appVars>>

NextParse == PExtract \/ PTrim \/ PParse

SpecParse == InitParse /\ [][NextParse]_vars

(***************************************************************************)
(* The pipeline on model output with defects inside a string value: an     *)
(* object {"s":"<content>"} whose content holds raw quotes and line breaks  *)
(***************************************************************************)
MaxContent == 4

\* The characters of a string value.
ContentChars == {"a", " ", QUOTE, LF, CR, ","}

Contents == UNION { [1..n -> ContentChars] : n \in 0..MaxContent }

\* What precedes the content: the brace, an optional line break, the key and
\* the opening quote of the value.
DocHeads ==
    { <<"{", QUOTE, "s", QUOTE, ":", QUOTE>>, <<"{", LF, QUOTE, "s", QUOTE, ":", QUOTE>> }

\* What follows the content: the closing quote and the rest of the object.
DocTails ==
    { <<QUOTE, "}">>, <<QUOTE, " ", ",", QUOTE, "t", QUOTE, ":", "1", LF, "}">> }

Doc(head, content, tail) == head \o content \o tail

RepairInputs == { Doc(h, c, t) : h \in DocHeads, c \in Contents, t \in DocTails }

InitRepair ==
    /\ text \in RepairInputs
    /\ label \in Labels
    /\ pstage = "text"
    /\ jsonText = <<>>
    /\ presult = [ok |-> FALSE, err |-> NewError(<<>>, <<>>), log |-> <<>>]
    /\ plog = <<>>
    /\ scan = ScanOff
    /\ ClassOff
    /\ FacadeOff
    /\ NumOff
    /\ MarketOff
    /\ AppOff

SpecRepair == InitRepair /\ [][NextParse]_vars

(***************************************************************************)
(* The pipeline on wrapped model output: one JSON object or array inside a *)
(* markdown fence, or with commentary around it                            *)
(***************************************************************************)
\* The JSON texts a model wraps: objects and arrays, nested, with braces and
\* brackets inside strings, with white space inside.
InnerJson ==
    { <<"{", QUOTE, "x", QUOTE, ":", "5", "}">>,
      <<"[", "1", ",", "2", "]">>,
      <<"[", "{", QUOTE, "x", QUOTE, ":", "5", "}", "]">>,
      <<"{", QUOTE, "a", QUOTE, ":", "[", "1", "]", "}">>,
      <<"{", QUOTE, "k", QUOTE, ":", QUOTE, "]", QUOTE, "}">>,
      <<"[", QUOTE, "}", QUOTE, "]">>,
      <<"{", LF, " ", QUOTE, "x", QUOTE, ":", " ", "5", LF, "}">>,
      <<"{", "}">>, <<"[", "]">> }

OpenFences == {FenceJson, Fence}
FenceSeps == {<<>>, <<LF>>, <<" ", LF>>}
OuterSpace == {<<>>, <<" ">>, <<LF>>}

Fenced(before, open, sep1, json, sep2, after) ==
    before \o open \o sep1 \o json \o sep2 \o Fence \o after

FencedInputs ==
    { Fenced(wb, o, s1, j, s2, wa) :
        wb \in OuterSpace, o \in OpenFences, s1 \in FenceSeps, j \in InnerJson,
        s2 \in FenceSeps, wa \in OuterSpace }

\* Commentary: free text without braces or brackets.
CommentBefore ==
    { <<>>, <<"S", "u", "r", "e", "!", " ", "H", "e", "r", "e", "'", "s", ":", " ">>,
      <<"o", "k", LF>> }
CommentAfter ==
    { <<>>, <<" ", "H", "o", "p", "e", " ", "t", "h", "a", "t", " ", "h", "e", "l", "p", "s", "!">>,
      <<LF, "d", "o", "n", "e", ".">> }

Commented(before, json, after) == before \o json \o after

CommentedInputs ==
    { Commented(b, j, a) : b \in CommentBefore, j \in InnerJson, a \in CommentAfter }
        \ InnerJson

InitExtract ==
    /\ text \in FencedInputs \cup CommentedInputs
    /\ label \in Labels
    /\ pstage = "text"
    /\ jsonText = <<>>
    /\ presult = [ok |-> FALSE, err |-> NewError(<<>>, <<>>), log |-> <<>>]
    /\ plog = <<>>
    /\ scan = ScanOff
    /\ ClassOff
    /\ FacadeOff
    /\ NumOff
    /\ MarketOff
    /\ AppOff

SpecExtract == InitExtract /\ [][NextParse]_vars

(***************************************************************************)
(* The repair scanner on its own, one loop iteration at a time, on texts   *)
(* with backslashes; the scanner is then applied to the text it returned   *)
(***************************************************************************)
MaxEscape == 4
MaxPasses == 2

\* The characters of a string value: a letter, a quote, a backslash, a raw
\* line break.
EscapeChars == {"a", QUOTE, BSLASH, LF}

EscapeContents == UNION { [1..n -> EscapeChars] : n \in 0..MaxEscape }

\* Objects {"s":"<content>"...} and arrays ["<content>"].
ScanHeads == DocHeads \cup { <<"[", QUOTE>> }

ScanTails == DocTails \cup { <<QUOTE, "]">> }

ScanInputs == { Doc(h, c, t) : h \in ScanHeads, c \in EscapeContents, t \in ScanTails }

\* Lines 114-116: the scanner is entered with jsonString = text.
InitScan ==
    /\ text \in ScanInputs
    /\ label = ""
    /\ pstage = "off"
    /\ jsonText = <<>>
    /\ presult = [ok |-> FALSE, err |-> NewError(<<>>, <<>>), log |-> <<>>]
    /\ plog = <<>>
    /\ scan = [i |-> 1, st |-> ScanStart, input |-> text, outputs |-> <<>>]
    /\ ClassOff
    /\ FacadeOff
    /\ NumOff
    /\ MarketOff
    /\ AppOff

\* Lines 118-160: one iteration of the loop, on the character at scan.i.
ScanChar ==
    /\ scan.i \in 1..Len(scan.input)
    /\ scan' = [scan EXCEPT !.i = @ + 1, !.st = ScanStep(scan.st, scan.input, scan.i)]
    /\ UNCHANGED <<text, label, pstage, jsonText, presult, plog,
                   classVars, facadeVars, numVars, marketVars, appVars>>

\* The loop has ended (line 160): repairedString is what the scanner gives,
\* and the scanner is entered again with that text as its jsonString.
ScanReturn ==
    /\ scan.i = Len(scan.input) + 1
    /\ Len(scan.outputs) < MaxPasses
    /\ scan' = [i |-> IF Len(scan.outputs) + 1 < MaxPasses THEN 1 ELSE 0,
                st |-> ScanStart,
                input |-> scan.st.repairedString,
                outputs |-> Append(scan.outputs, scan.st.repairedString)]
    /\ UNCHANGED <<text, label, pstage, jsonText, presult, plog,
                   classVars, facadeVars, numVars, marketVars, appVars>>

NextScan == ScanChar \/ ScanReturn

SpecScan == InitScan /\ [][NextScan]_vars

(***************************************************************************)
(* The numeric sanitizer on its own: parseNumeric applied to a value and   *)
(* then to its own result                                                  *)
(***************************************************************************)
MaxNumText == 3
MaxApplications == 2

NumTextChars == {"1", "2", ".", "-", "%", "a"}

TxtPercent == <<"1", "2", ".", "5", "%">>
TxtGarbage == <<"g", "a", "r", "b", "a", "g", "e">>

\* The values a parsed payload may hold in a numeric field.
NumericInputs ==
    { JStr(t) : t \in UNION { [1..n -> NumTextChars] : n \in 0..MaxNumText } }
        \cup { JStr(TxtPercent), JStr(TxtGarbage) }
        \cup { JNum(125, 1), JNum(0, 0), JNum(-3, 0), JNaN }
        \cup { JNull, Undefined, JTrue, JArr(<<>>), JObj(<<>>) }

InitNumeric ==
    /\ nvalue \in NumericInputs
    /\ nres = <<>>
    /\ ParseOff
    /\ ClassOff
    /\ FacadeOff
    /\ MarketOff
    /\ AppOff

\* parseNumeric is applied to the value, then to the result it gave.
Sanitize ==
    /\ Len(nres) < MaxApplications
    /\ nres' = Append(nres, parseNumeric(IF nres = <<>> THEN nvalue ELSE nres[Len(nres)]))
    /\ UNCHANGED <<nvalue, parseVars, classVars, facadeVars, marketVars, appVars>>

NextNumeric == Sanitize

SpecNumeric == InitNumeric /\ [][NextNumeric]_vars

(***************************************************************************)
(* The classifier on its own: one caught value, classified repeatedly      *)
(***************************************************************************)
MaxMsgFrags == 2
MaxClassifyCalls == 2

\* The message fragments caught values are made of.
MsgVocab ==
    << "Failed to fetch", "FETCH FAILED", "Load failed", "network unreachable",
       "RESOURCE_EXHAUSTED", "Quota exceeded", "PERMISSION_DENIED", "API key not valid",
       "NOT_FOUND", "404", "Invalid argument", "invalid JSON payload", "Internal error",
       "boom" >>

\* The messages of k fragments, in the order of MsgVocab.
MessagesOf(k) ==
    { [i \in 1..k |-> MsgVocab[ix[i]]] :
        ix \in { f \in [1..k -> 1..Len(MsgVocab)] : \A a, b \in 1..k : a < b => f[a] < f[b] } }

CaughtMessages == UNION { MessagesOf(k) : k \in 0..MaxMsgFrags }

ParenStack == << Frame(TRUE, FALSE, "paren", "", "App.tsx:10:5") >>
RawStack == << Frame(TRUE, FALSE, "raw", "at <anonymous>", "") >>

\* No stack, and stacks of each format lines 44-53 tell apart.
Stacks == { <<>>, SdkStack, ServiceStack, ParenStack, RawStack }

\* A thrown value that is no Error: a string, null, undefined, a plain object.
\* msg is the text of a string, or the message property of an object.
NonError(cls, msg) ==
    [cls |-> cls, msg |-> msg, stack |-> <<>>, engine |-> NoEngine, price |-> NoPrice]

CaughtValues ==
    { [cls |-> c, msg |-> m, stack |-> st, engine |-> NoEngine,
       price |-> IF c = "AnomalousPriceError" THEN <<2001, 0>> ELSE NoPrice] :
        c \in {"Error", "TypeError", "ApiKeyNotSetError", "AnomalousPriceError"},
        m \in CaughtMessages, st \in Stacks }
    \cup { NonError("null", <<>>), NonError("undefined", <<>>),
           NonError("string", <<"Quota exceeded">>), NonError("string", <<"boom">>),
           NonError("object", <<"Failed to fetch">>), NonError("object", <<>>) }

InitClassify ==
    /\ caught \in CaughtValues
    /\ cargs \in [defaultMessage : {DefaultMessage("getAssetInfo"), DefaultMessage("getAssetQuote")},
                  model : Engines]
    /\ cres = Returned(NewError(<<>>, <<>>), NewError(<<>>, <<>>))
    /\ kinds = <<>>
    /\ ParseOff
    /\ FacadeOff
    /\ NumOff
    /\ MarketOff
    /\ AppOff

\* A catch block hands the caught value to handleGeminiError; the same value
\* may be handed over again.  `kinds` lists the outcome of each call.
Classify ==
    /\ Len(kinds) < MaxClassifyCalls
    /\ cres' = handleGeminiError(caught, cargs.defaultMessage, cargs.model)
    /\ caught' = cres'.arg
    /\ kinds' = Append(kinds, IF cres'.threw THEN "threw" ELSE KindOf(cres'.err))
    /\ UNCHANGED <<cargs, parseVars, facadeVars, numVars, marketVars, appVars>>

\* Between two classifications the module's state may change.
NextClassify ==
    \/ Classify
    \/ \E k \in ApiKeys : InitializeGemini(k)

SpecClassify == InitClassify /\ [][NextClassify]_vars

(***************************************************************************)
(* Properties                                                              *)
(***************************************************************************)
\* The text contains a markdown fence.
HasFence(txt) == \E i \in 1..Len(txt) : txt[i] = BTICK

\* val is an object with an own member `key`.
HasMember(val, key) == val.t = "obj" /\ \E i \in 1..Len(val.v) : val.v[i].k = key

\* The invocation in slot i has ended.
Done(i) == inv[i].pc = "done"

\* C1: round trip on clean input.  Once the pipeline (extractor, then
\* safeJsonParse) has run on a text without a fence that JSON.parse accepts,
\* its result is the value JSON.parse gives for that text.
C1_RoundTrip ==
    (pstage = "parsed" /\ plog[1] = "extract" /\ ~HasFence(text) /\ JSONParse(text).ok)
        => (presult.ok /\ presult.val = JSONParse(text).val)

\* The operations that hand the response text to cleanAndParseJson as it is.
PipelineOperations ==
    {"getAssetAnalysis", "getGlobalAnalysis", "askAboutAnalysis", "getAlternativeAssets",
     "analyzeMarketSector"}

\* C2: irrecoverable input fails cleanly.  When an operation has handed the
\* pipeline a text that parses neither directly nor after repair, the error its
\* caller receives is of kind MalformedPayload and names the operation.
C2_MalformedReachesCaller ==
    \A i \in Slots :
        ( /\ Done(i)
          /\ inv[i].op \in PipelineOperations
          /\ ~inv[i].settled.rejected
          /\ inv[i].settled.resp.hasText
          /\ ~cleanAndParseJson(inv[i].settled.resp.text, inv[i].op, ServiceStack).ok )
        => ( /\ inv[i].out.threw
             /\ KindOf(inv[i].out.err) = "MalformedPayload"
             /\ \E k \in 1..Len(inv[i].out.err.msg) : inv[i].out.err.msg[k] = inv[i].op )

C4_NoPartialResult ==
    \A i \in Slots :
        (Done(i) /\ ~inv[i].out.threw) =>
            LET op == inv[i].op
                data == inv[i].out.data
            IN  /\ op \in {"getAssetAnalysis", "getGlobalAnalysis"} =>
                     /\ HasMember(data.content, K_summary)
                     /\ HasMember(data.content, K_fullText)
                     /\ HasMember(data.content, K_sentiment)
                /\ op \in {"getAssetQuote", "getAssetPriceOnDate", "getLimitBuyPrice"} =>
                     HasMember(data, K_price)
                /\ op = "askAboutAnalysis" =>
                     HasMember(data, K_summary) /\ HasMember(data, K_fullText)
                /\ op = "askWithWebSearch" =>
                     HasMember(data.answer, K_summary) /\ HasMember(data.answer, K_fullText)

\* C5: every error that escapes an operation is a value handleGeminiError
\* returned.
C5_EveryErrorClassified ==
    \A i \in Slots : (Done(i) /\ inv[i].out.threw) => inv[i].out.classified

IsDomainError(error) == error.cls \in {"ApiKeyNotSetError", "AnomalousPriceError"}

\* The message of an Error mentions fetch, network or load failed.
MentionsNetwork(error) ==
    /\ InstanceOf(error, "Error")
    /\ \/ LowerIncludes(error.msg, "fetch")
       \/ LowerIncludes(error.msg, "network")
       \/ LowerIncludes(error.msg, "load failed")

\* The kind the ordered rules 1-8 give a caught value, keywords matched
\* without regard to case.
RuleOrderKind(error) ==
    CASE error.cls = "ApiKeyNotSetError" -> "ApiKeyNotSet"
      [] error.cls = "AnomalousPriceError" -> "AnomalousPrice"
      [] ~IsDomainError(error) /\ ~InstanceOf(error, "Error") -> "UnknownError"
      [] OTHER ->
           IF MentionsNetwork(error) THEN "NetworkError"
           ELSE IF LowerIncludes(error.msg, "resource_exhausted") \/ LowerIncludes(error.msg, "quota")
           THEN "QuotaExceeded"
           ELSE IF LowerIncludes(error.msg, "api key not valid")
                   \/ LowerIncludes(error.msg, "permission_denied")
           THEN "AuthenticationError"
           ELSE IF LowerIncludes(error.msg, "not_found") \/ LowerIncludes(error.msg, "404")
           THEN "ModelUnavailable"
           ELSE IF LowerIncludes(error.msg, "invalid argument") THEN "InvalidRequest"
           ELSE IF ~LowerIncludes(error.msg, "json") /\ ~LowerIncludes(error.msg, "internal")
           THEN "UpstreamError"
           ELSE "UnknownError"

\* C7: the rules apply in the order pass-through, network, quota,
\* authentication, model-unavailable, invalid-request, upstream wrap, unknown,
\* the first match deciding, keywords matched without regard to case: every
\* classification gives the kind of that cascade.
C7_RuleOrder ==
    kinds # <<>> => kinds[Len(kinds)] = RuleOrderKind(caught)

\* C8: a caught Error that is no domain error and whose message mentions
\* fetch, network or load failed has been classified as NetworkError, whatever
\* else its message mentions.
C8_NetworkRule ==
    (kinds # <<>> /\ ~IsDomainError(caught) /\ MentionsNetwork(caught))
        => kinds[Len(kinds)] = "NetworkError"

\* C9: a QuotaExceeded error that escaped an invocation carries the engine
\* that invocation was called with, whatever the other invocations in flight
\* were called with.
C9_QuotaKeepsEngine ==
    \A i \in Slots :
        (Done(i) /\ inv[i].out.threw /\ KindOf(inv[i].out.err) = "QuotaExceeded")
            => inv[i].out.err.engine = inv[i].engine

\* Two invocations with different engines were in flight together and both
\* have ended in a QuotaExceeded error.
C9_ConcurrentQuotaFailures ==
    \E i, j \in Slots :
        /\ inv[i].engine # inv[j].engine
        /\ Done(i) /\ inv[i].settled.rejected /\ KindOf(inv[i].out.err) = "QuotaExceeded"
        /\ Done(j) /\ inv[j].settled.rejected /\ KindOf(inv[j].out.err) = "QuotaExceeded"

\* C10: classifier determinism.  All classifications of one caught value with
\* one default message have given the same kind, whatever happened to the
\* module's state in between.
C10_Deterministic ==
    \A a, b \in 1..Len(kinds) : kinds[a] = kinds[b]

\* A pass-through error has been classified twice, its message now carrying
\* the debug info of the first call, and the client was set in between.
C10_ClassifiedTwice ==
    /\ Len(kinds) = 2
    /\ caught.cls = "AnomalousPriceError"
    /\ Includes(caught.msg, "fetch")
    /\ ai.set

\* The price the response of slot i carries, as JSON.parse reads it.
SentPrice(i) ==
    Bind(JSONParse(inv[i].settled.resp.text), LAMBDA r :
        IF r.ok THEN Field(r.val, K_price) ELSE Undefined)

\* p / c > 20 or p / c < 0.05, for c > 0, in exact decimal arithmetic.
RatioOutOfBounds(p, c) ==
    \/ p[1] * Pow10(c[2]) > 20 * c[1] * Pow10(p[2])
    \/ 20 * p[1] * Pow10(c[2]) < c[1] * Pow10(p[2])

\* A historical lookup with a current price above 1 has ended on a response
\* that carries a number as price.
GuardedLookup(i) ==
    /\ Done(i)
    /\ inv[i].op = "getAssetPriceOnDate"
    /\ inv[i].calls = 1
    /\ ~inv[i].settled.rejected
    /\ inv[i].cur.t = "num"
    /\ NumGreater(inv[i].cur.v, One)
    /\ SentPrice(i).t = "num"

\* C11: anomaly guard boundary.  A historical lookup with current price c > 1
\* and parsed price p fails with an AnomalousPriceError carrying p exactly
\* when p / c > 20 or p / c < 0.05, and returns p otherwise.
C11_GuardBoundary ==
    \A i \in Slots :
        GuardedLookup(i) =>
            IF RatioOutOfBounds(SentPrice(i).v, inv[i].cur.v)
            THEN /\ inv[i].out.threw
                 /\ inv[i].out.err.cls = "AnomalousPriceError"
                 /\ inv[i].out.err.price = SentPrice(i).v
            ELSE /\ ~inv[i].out.threw
                 /\ Field(inv[i].out.data, K_price) = SentPrice(i)

\* The guard is skipped for slot i: a prediction, no current price, or a
\* current price that is not above 1.
GuardSkipped(i) ==
    \/ inv[i].op = "getAssetFuturePricePrediction"
    \/ inv[i].cur.t = "null"
    \/ (inv[i].cur.t = "num" /\ ~NumGreater(inv[i].cur.v, One))

\* C12: where the guard is skipped the parsed price is returned whatever its
\* ratio to the current price, and an AnomalousPriceError comes only from a
\* historical lookup with a current price above 1.
C12_GuardSkipped ==
    \A i \in Slots :
        /\ (Done(i) /\ inv[i].calls = 1 /\ ~inv[i].settled.rejected
               /\ GuardSkipped(i) /\ SentPrice(i).t = "num")
              => (~inv[i].out.threw /\ Field(inv[i].out.data, K_price) = SentPrice(i))
        /\ (Done(i) /\ inv[i].out.threw /\ inv[i].out.err.cls = "AnomalousPriceError")
              => (inv[i].op = "getAssetPriceOnDate" /\ inv[i].cur.t = "num"
                    /\ NumGreater(inv[i].cur.v, One))

\* A historical lookup with current price 0.5 has returned a price forty
\* times as high, while a prediction has returned 2001.
C12_SkippedWithWildRatio ==
    \E i, j \in Slots :
        /\ Done(i) /\ inv[i].op = "getAssetPriceOnDate" /\ inv[i].cur = JNum(5, 1)
        /\ ~inv[i].out.threw /\ Field(inv[i].out.data, K_price) = JNum(2001, 0)
        /\ Done(j) /\ inv[j].op = "getAssetFuturePricePrediction"
        /\ ~inv[j].out.threw /\ Field(inv[j].out.data, K_price) = JNum(2001, 0)

\* The head and the tail of a document of RepairInputs, and its content.
HeadOf(txt) == CHOOSE h \in DocHeads : StartsWith(txt, h)
TailOf(txt) == CHOOSE t \in DocTails : EndsWith(txt, t)
ContentOf(txt) == SubSeq(txt, Len(HeadOf(txt)) + 1, Len(txt) - Len(TailOf(txt)))

\* The value the document stands for: its content as the value of s, and t.
DocValue(txt) ==
    JObj(<< [k |-> <<"s">>, v |-> JStr(ContentOf(txt))] >>
         \o (IF Len(TailOf(txt)) > 2 THEN << [k |-> <<"t">>, v |-> JNum(1, 0)] >> ELSE <<>>))

\* The content with every quote and every line break written as its escape.
RECURSIVE EscapeContent(_)
EscapeContent(c) ==
    IF c = <<>> THEN <<>>
    ELSE (CASE Head(c) = QUOTE -> <<BSLASH, QUOTE>>
            [] Head(c) = LF -> <<BSLASH, "n">>
            [] Head(c) = CR -> <<BSLASH, "r">>
            [] OTHER -> <<Head(c)>>) \o EscapeContent(Tail(c))

\* The quote at index k of txt is followed, after optional whitespace, by a
\* character other than : , } ].
InnerQuote(txt, k) ==
    \E j \in (k + 1)..Len(txt) :
        /\ ~IsSpace(txt[j])
        /\ txt[j] \notin {":", ",", "}", "]"}
        /\ \A m \in (k + 1)..(j - 1) : IsSpace(txt[m])

\* The indices of the content of txt.
ContentIdx(txt) == (Len(HeadOf(txt)) + 1)..(Len(txt) - Len(TailOf(txt)))

\* Every quote of the content is an inner quote.
QuotesAreInner(txt) ==
    \A k \in ContentIdx(txt) : txt[k] = QUOTE => InnerQuote(txt, k)

\* The pipeline (extractor, then safeJsonParse) has run on the document.
PipelineRan == pstage = "parsed" /\ plog[1] = "extract" /\ text \in RepairInputs

\* C13: embedded-quote repair.  For a document whose string value holds raw
\* quotes, each followed after optional whitespace by a character other than
\* : , } ], the scanner writes each of them as an escaped quote, ends the string
\* at the quote that is followed by one of the four, and the pipeline returns
\* the object with the quotes kept in the value.
C13_EmbeddedQuotes ==
    (PipelineRan /\ QuotesAreInner(text) /\ \E k \in ContentIdx(text) : text[k] = QUOTE)
        => /\ presult.ok
           /\ presult.val = DocValue(text)
           /\ presult.repaired
           /\ RepairScan(jsonText) = Doc(HeadOf(text), EscapeContent(ContentOf(text)), TailOf(text))

\* The value `a "a" a`-like: two raw quotes in the value, the second one
\* followed by whitespace, and a second member after the value.
C13_TwoQuotesRepaired ==
    /\ PipelineRan
    /\ presult.ok
    /\ ContentOf(text) = <<"a", QUOTE, QUOTE, " ">>
    /\ Len(TailOf(text)) > 2
    /\ presult.val = DocValue(text)

\* C14: raw-newline repair.  Every raw line feed or carriage return inside the
\* string value is written as its two-character escape, the line breaks outside
\* strings stay, and the parsed value has the line break where the text had it.
C14_RawNewlines ==
    (PipelineRan /\ QuotesAreInner(text)
       /\ \E k \in ContentIdx(text) : text[k] \in {LF, CR})
        => /\ presult.ok
           /\ presult.val = DocValue(text)
           /\ presult.repaired
           /\ RepairScan(jsonText) = Doc(HeadOf(text), EscapeContent(ContentOf(text)), TailOf(text))

\* A value with a line feed and a carriage return, in a document that also
\* has line breaks outside its strings, has been repaired.
C14_NewlinesRepaired ==
    /\ PipelineRan
    /\ presult.ok
    /\ ContentOf(text) = <<"a", LF, CR, "a">>
    /\ HeadOf(text)[2] = LF
    /\ Len(TailOf(text)) > 2
    /\ presult.val = DocValue(text)

\* txt is the JSON text j inside a fence.
FencedAs(txt, j) ==
    \E wb \in OuterSpace, o \in OpenFences, s1 \in FenceSeps, s2 \in FenceSeps,
       wa \in OuterSpace : txt = Fenced(wb, o, s1, j, s2, wa)

\* txt is the JSON text j with commentary before it, after it or both.
CommentedAs(txt, j) ==
    \E b \in CommentBefore, a \in CommentAfter :
        txt = Commented(b, j, a) /\ (b # <<>> \/ a # <<>>)

\* The cleanAndParseJson call on `text` has returned or thrown.
Extracted == pstage = "parsed" /\ plog[1] = "extract"

\* C15: fence stripping.  A text that is one JSON object or array inside a
\* markdown fence (opening fence with or without the word json), with optional
\* white space around it, parses to the value of the JSON inside.
C15_FenceStripping ==
    \A j \in InnerJson :
        (Extracted /\ FencedAs(text, j)) => (presult.ok /\ presult.val = JSONParse(j).val)

\* A payload behind a bare fence, and one behind a json fence, have been parsed.
C15_BareFenceParsed ==
    /\ Extracted
    /\ presult.ok
    /\ StartsWith(text, Fence \o <<LF, "[">>)
    /\ presult.val = JArr(<<JObj(<< [k |-> <<"x">>, v |-> JNum(5, 0)] >>)>>)

\* C16: commentary extraction.  A text that is one JSON object or array with
\* commentary free of braces and brackets before it, after it or both, parses
\* to the value of that JSON.
C16_CommentaryExtraction ==
    \A j \in InnerJson :
        (Extracted /\ CommentedAs(text, j)) => (presult.ok /\ presult.val = JSONParse(j).val)

\* a === b for two numbers: NaN is equal to nothing, itself included.
StrictEquals(a, b) == a.t # "nan" /\ b.t # "nan" /\ a = b

\* C17: numeric sanitizer.  parseNumeric is idempotent on every input; a
\* number comes back unchanged; a string gives the number parsed from its first
\* signed-decimal substring ('12.5%' gives 12.5); a string without one, and a
\* value that is neither string nor number, give 0.
C17_NumericSanitizer ==
    /\ Len(nres) = 2 => StrictEquals(nres[2], nres[1])
    /\ Len(nres) >= 1 =>
          /\ TypeOf(nvalue) = "number" => nres[1] = nvalue
          /\ nvalue = JStr(TxtPercent) => nres[1] = JNum(125, 1)
          /\ nvalue = JStr(<<"2", "a", "1">>) => nres[1] = JNum(2, 0)
          /\ nvalue = JStr(<<"a", "-", "2">>) => nres[1] = JNum(-2, 0)
          /\ nvalue = JStr(<<"1", ".", "2">>) => nres[1] = JNum(12, 1)
          /\ nvalue = JStr(TxtGarbage) => nres[1] = JNum(0, 0)
          /\ (TypeOf(nvalue) = "string" /\ \A i \in 1..Len(nvalue.v) : ~IsNumChar(nvalue.v[i]))
                => nres[1] = JNum(0, 0)
          /\ TypeOf(nvalue) \notin {"number", "string"} => nres[1] = JNum(0, 0)

\* The payload the response of slot i carries, as JSON.parse reads it.
SentPayload(i) ==
    Bind(JSONParse(inv[i].settled.resp.text), LAMBDA r : IF r.ok THEN r.val ELSE Undefined)

\* Every member of obj named in keys is a number.
NumbersAt(obj, keys) == \A key \in keys : TypeOf(Field(obj, key)) = "number"

\* The sector average the code puts in place of a missing one.
ZeroAverage ==
    JObj(<< [k |-> K_marketCap, v |-> JStr(<<"0">>)],
            [k |-> K_averagePeRatio, v |-> JNum(0, 0)],
            [k |-> K_averageEps, v |-> JNum(0, 0)],
            [k |-> K_averageDividendYield, v |-> JNum(0, 0)] >>)

\* An analyzeMarketSector call has returned a result in slot i.
SectorReturned(i) ==
    /\ Done(i)
    /\ inv[i].op = "analyzeMarketSector"
    /\ inv[i].calls = 1
    /\ ~inv[i].settled.rejected
    /\ ~inv[i].out.threw

\* C18: in every result analyzeMarketSector returns, peRatio, eps and
\* dividendYield of every asset and the three averages of the sector average
\* are numbers, whatever the payload held; a payload without assets gives an
\* empty list and one without sectorAverage gives all-zero averages.
C18_NumericFields ==
    \A i \in Slots :
        SectorReturned(i) =>
            Bind(inv[i].out.data, LAMBDA data :
                /\ Field(data, K_assets).t = "arr"
                /\ \A k \in 1..Len(Field(data, K_assets).v) :
                      NumbersAt(Field(data, K_assets).v[k], {K_peRatio, K_eps, K_dividendYield})
                /\ NumbersAt(Field(data, K_sectorAverage),
                             {K_averagePeRatio, K_averageEps, K_averageDividendYield})
                /\ ~HasMember(SentPayload(i), K_assets) => Field(data, K_assets) = JArr(<<>>)
                /\ ~HasMember(SentPayload(i), K_sectorAverage)
                      => Field(data, K_sectorAverage) = ZeroAverage)

\* A payload whose asset has "12.5%" as peRatio and whose sector average has
\* "12.5%" as averageEps has been returned with 12.5 in both places.
C18_PercentSanitized ==
    \E i \in Slots :
        /\ SectorReturned(i)
        /\ Field(SentPayload(i), K_assets).t = "arr"
        /\ Len(Field(SentPayload(i), K_assets).v) = 1
        /\ Field(Field(SentPayload(i), K_assets).v[1], K_peRatio) = JStr(TxtPercent)
        /\ Field(Field(inv[i].out.data, K_assets).v[1], K_peRatio) = JNum(125, 1)
        /\ Field(Field(inv[i].out.data, K_sectorAverage), K_averageEps) = JNum(125, 1)

\* The token counts of the response of slot i.
OwnUsage(i) ==
    Bind(inv[i].settled.resp.meta, LAMBDA m :
        [promptTokens |-> IF m.has THEN m.p ELSE 0,
         candidateTokens |-> IF m.has THEN m.c ELSE 0,
         totalTokens |-> IF m.has THEN m.t ELSE 0])

\* C19: concurrent facade calls are independent.  Whatever else is in flight
\* and in whatever order the responses arrive, what an invocation returns or
\* throws is what its own operation, parameters and response determine: its
\* usage is the token count of its own response and its data the payload of
\* its own response.
C19_Independent ==
    \A i \in Slots :
        (Done(i) /\ inv[i].calls = 1) =>
            /\ inv[i].out = Settle(inv[i].op, inv[i].engine, inv[i].cur, inv[i].settled)
            /\ (~inv[i].out.threw /\ ~inv[i].settled.rejected) =>
                  /\ inv[i].out.usage = OwnUsage(i)
                  /\ (inv[i].op \in {"getAssetAnalysis", "getGlobalAnalysis"}
                        /\ SentPayload(i).t # "undefined")
                       => inv[i].out.data.content = SentPayload(i)
                  /\ (inv[i].op \in {"getAssetQuote", "getLimitBuyPrice", "getAssetPriceOnDate",
                                      "getAssetFuturePricePrediction", "askAboutAnalysis"}
                        /\ SentPayload(i).t # "undefined")
                       => inv[i].out.data = SentPayload(i)

\* Two lookups of the same operation with different engines, current prices
\* and responses have both returned, each with the price of its own response,
\* and the module's client was replaced while they were in flight.
C19_BothServed ==
    /\ \A i \in Slots : Done(i) /\ inv[i].op = "getAssetPriceOnDate" /\ ~inv[i].out.threw
    /\ inv[1].engine # inv[2].engine
    /\ inv[1].cur = JNum(100, 0) /\ inv[2].cur = JNull
    /\ Field(inv[1].out.data, K_price) = JNum(50, 0)
    /\ Field(inv[2].out.data, K_price) = JNum(2001, 0)
    /\ ai # inv[1].client

(***************************************************************************)
(* C20: the market fan-out and its join                                    *)
(***************************************************************************)
\* The entry the results hold for a fulfilled call, and the calls of a sector
\* that are fulfilled, in call order.
KeptEntry(call) == WithCriterion(call.out.data, call.criterion)
FulfilledIn(sector) ==
    SelectSeq(mcalls, LAMBDA c : c.status = "fulfilled" /\ c.sector = sector)
ListedIn(sector) ==
    SelectSeq(mcalls, LAMBDA c : c.status = "fulfilled" /\ c.sector = sector
                                   /\ HasAssets(c.out.data))
RejectedCalls == SelectSeq(mcalls, LAMBDA c : c.status = "rejected")

\* The list the results hold under a sector (empty when the sector is no key).
ResultsUnder(sector) ==
    IF \E g \in DOMAIN mview.results : mview.results[g].sector = sector
    THEN mview.results[CHOOSE g \in DOMAIN mview.results : mview.results[g].sector = sector].items
    ELSE <<>>

Joined == mrun.pc = "done"

\* The join waited for every call, and the loading flag is down after it.
JoinAfterAllSettled ==
    /\ Joined => (~mview.isLoading /\ \A k \in DOMAIN mcalls : mcalls[k].status # "pending")
    /\ mrun.pc = "awaiting" => mview.isLoading

\* Every failure is in the error message, with its sector, the first twenty
\* characters of its criterion and its message, and is passed to onApiError
\* with its sector; the message is null when nothing failed.
FailuresReported ==
    Joined =>
      /\ Len(mview.error.failures) = Len(RejectedCalls)
      /\ Len(mreports) = Len(RejectedCalls)
      /\ mview.error.head = (IF RejectedCalls = <<>> THEN "null" ELSE SomeFailedHead)
      /\ \A k \in DOMAIN RejectedCalls :
            /\ mview.error.failures[k].sector = RejectedCalls[k].sector
            /\ mview.error.failures[k].criterion =
                  SubSeq(RejectedCalls[k].criterion, 1, Min(20, Len(RejectedCalls[k].criterion)))
            /\ mview.error.failures[k].message = RejectedCalls[k].out.err.msg
            /\ mreports[k].error = RejectedCalls[k].out.err
            /\ mreports[k].title = <<MarketErrorTitle, RejectedCalls[k].sector>>

QuotaFailure(k) ==
    acalls[k].status = "failed" /\ InstanceOf(acalls[k].out.err, "QuotaExceededError")

\* The same for a call of the market fan-out, once handleAnalyze has joined.
MarketQuotaFailure(k) ==
    /\ Joined
    /\ mcalls[k].status = "rejected"
    /\ InstanceOf(mcalls[k].out.err, "QuotaExceededError")

\* C21: whenever a facade call made by the application (search, session
\* initialization, vector analysis, global synthesis, chat, market fan-out,
\* portfolio price refresh, portfolio import) has failed with QuotaExceeded,
\* isQuotaExhausted is true.
C21_QuotaDisablesAI ==
    /\ \A k \in DOMAIN acalls : QuotaFailure(k) => app.isQuotaExhausted
    /\ \A k \in DOMAIN mcalls : MarketQuotaFailure(k) => app.isQuotaExhausted

(***************************************************************************)
(* C22: the attempts of safeJsonParse, in order                            *)
(***************************************************************************)
\* The number of times `step` occurs in the steps the pipeline took.
Times(step) == Cardinality({ n \in DOMAIN plog : plog[n] = step })

\* The steps safeJsonParse took: the steps of the pipeline after the
\* extractor's (or the facade's trim).
ParseSteps == Tail(plog)

\* C22: the pipeline first parses the extractor's output directly; when that
\* parse succeeds the scanner is never run; when it fails a warning is
\* emitted, then the scanner runs exactly once over that same text, then its
\* output is parsed; when this second parse fails too the pipeline throws, and
\* makes no third attempt.
C22_OrderedAttempts ==
    pstage = "parsed" =>
       IF JSONParse(jsonText).ok
       THEN /\ ParseSteps = <<"parse">>
            /\ presult.ok /\ ~presult.repaired
            /\ presult.val = JSONParse(jsonText).val
       ELSE /\ SubSeq(ParseSteps, 1, 4) = <<"parse", "warn", "scan", "parse">>
            /\ Times("scan") = 1 /\ Times("warn") = 1 /\ Times("parse") = 2
            /\ IF JSONParse(RepairScan(jsonText)).ok
               THEN /\ Len(ParseSteps) = 4
                    /\ presult.ok /\ presult.repaired
                    /\ presult.val = JSONParse(RepairScan(jsonText)).val
               ELSE /\ ~presult.ok
                    /\ ParseSteps[Len(ParseSteps)] = "throw"
                    /\ presult.err = RepairFailure(label, ServiceStack)

\* A text whose direct parse failed and whose repaired form parsed.
C22_RepairedOnSecondAttempt ==
    /\ pstage = "parsed"
    /\ ~JSONParse(jsonText).ok
    /\ presult.ok /\ presult.repaired
    /\ ParseSteps = <<"parse", "warn", "scan", "parse">>

(***************************************************************************)
(* C23: what raises in the parse path                                      *)
(***************************************************************************)
\* The parse path has ended with an error.
PathRaised == pstage = "raised" \/ (pstage = "parsed" /\ ~presult.ok)

\* C23: for every response text handed to the parse path, an empty or absent
\* one included, the extractor and the scanner raise nothing: when the path
\* ends with an error, the extractor has handed a text over, both parses
\* have failed, and the error is the one the pipeline throws in the catch
\* block of its second parse.
C23_OnlyParseRaises ==
    PathRaised =>
       /\ pstage = "parsed"
       /\ Times("parse") = 2
       /\ presult.err = RepairFailure(label, ServiceStack)

(***************************************************************************)
(* C24: the classifier on an already classified domain error               *)
(***************************************************************************)
\* C24: when the caught value is an ApiKeyNotSetError or an
\* AnomalousPriceError, the classifier returns that same error (the caught
\* object itself), its class, its price and its other fields unchanged, its
\* message the old message followed by the caller-location debug suffix (by
\* nothing when the stack names no caller); neither the default message nor
\* the model identifier shows in the result.
C24_DomainPassThrough ==
    [][(IsDomainError(caught) /\ kinds' # kinds) =>
          /\ ~cres'.threw
          /\ cres'.err = [caught EXCEPT !.msg = @ \o DebugInfo(caught)]
          /\ cres'.err = caught'
          /\ cres'.err.cls = caught.cls
          /\ cres'.err.price = caught.price]_vars

\* An AnomalousPriceError that carries the rejected price 2001 and a stack
\* naming a caller has been classified: it came back with its price and with
\* the debug suffix at the end of its message.
C24_AnomalyReturned ==
    /\ kinds # <<>>
    /\ cres.err.cls = "AnomalousPriceError"
    /\ cres.err = caught
    /\ cres.err.price = <<2001, 0>>
    /\ caught.stack = SdkStack
    /\ Len(caught.msg) >= Len(DebugInfo(caught))
    /\ SubSeq(caught.msg, Len(caught.msg) - Len(DebugInfo(caught)) + 1, Len(caught.msg))
          = DebugInfo(caught)

(***************************************************************************)
(* C25: token usage is accounted by reduction after the join               *)
(***************************************************************************)
RECURSIVE SumOf(_)
SumOf(numbers) == IF numbers = <<>> THEN 0 ELSE Head(numbers) + SumOf(Tail(numbers))

\* The tokens the application has recorded so far.
RecordedTokens ==
    SumOf([n \in DOMAIN app.tokenUsageHistory |-> app.tokenUsageHistory[n].tokens])

\* The tokens of the calls that succeeded, of the market fan-out and of the
\* fan-out of the portfolio.
MarketTokens ==
    SumOf([k \in DOMAIN mcalls |->
             IF mcalls[k].status = "fulfilled" THEN mcalls[k].out.usage.totalTokens ELSE 0])
PortfolioTokens ==
    SumOf([k \in DOMAIN acalls |->
             IF acalls[k].status = "done" THEN acalls[k].out.usage.totalTokens ELSE 0])

\* The fan-out of the portfolio (refresh or import) has joined, or none ran.
PortfolioJoined == ~app.isLoadingPrices /\ ~app.isImporting

\* C25: the usage of parallel calls is accounted only after all the calls of
\* their fan-out have settled, by reduction over the completed results, never
\* from inside the concurrent callbacks: at every moment the usage recorded is
\* the sum of the usage of the calls that succeeded in the fan-outs that have
\* joined (market analysis, price refresh, import), nothing lost and nothing
\* counted twice.
C25_AccountedAfterJoin ==
    RecordedTokens = (IF Joined THEN MarketTokens ELSE 0)
                       + (IF PortfolioJoined THEN PortfolioTokens ELSE 0)


(***************************************************************************)
(* C26: escape handling in the scanner                                     *)
(***************************************************************************)
\* The character the loop is about to read.
ScanCharAt == scan.input[scan.i]

\* The iteration copied the character it read and nothing else, and left
\* inString as it was.
CopiedUnchanged ==
    /\ scan'.st.repairedString = Append(scan.st.repairedString, ScanCharAt)
    /\ scan'.st.inString = scan.st.inString

\* C26: in every iteration of the scanner's loop, a character read while the
\* escape flag is set is copied unchanged, leaves inString as it was and
\* clears the flag (so an escaped quote neither ends the string nor gets a
\* second backslash); a backslash read while the flag is clear is copied and
\* sets the flag; and the flag is set after an iteration only then (so the
\* second backslash of a pair does not escape what follows, and the flag
\* lasts exactly one character).
C26_EscapedCharCopied ==
    [][ScanChar =>
         /\ scan.st.isEscaped => (CopiedUnchanged /\ ~scan'.st.isEscaped)
         /\ (~scan.st.isEscaped /\ ScanCharAt = BSLASH) =>
                (CopiedUnchanged /\ scan'.st.isEscaped)
         /\ scan'.st.isEscaped => (~scan.st.isEscaped /\ ScanCharAt = BSLASH)]_vars

\* The object {"s":"\\\""}: an escaped backslash, then an escaped quote.
EscapedPairText ==
    <<"{", QUOTE, "s", QUOTE, ":", QUOTE, BSLASH, BSLASH, BSLASH, QUOTE, QUOTE, "}">>

\* The scanner went through the escaped backslash and the escaped quote of
\* that object and returned the text as it was.
C26_EscapedQuoteKept ==
    /\ text = EscapedPairText
    /\ Len(scan.outputs) = 1
    /\ scan.outputs[1] = text

(***************************************************************************)
(* C27: what the extractor hands to the parser                             *)
(***************************************************************************)
\* In a text: the 0-based index of its first '{' or '[' (-1 if it has none)
\* and of its last '}' or ']' (-1 if it has none).
FirstOpener(s) ==
    IF IndexOf(s, "{") = -1 THEN IndexOf(s, "[")
    ELSE IF IndexOf(s, "[") = -1 THEN IndexOf(s, "{")
    ELSE Min(IndexOf(s, "{"), IndexOf(s, "["))

LastCloser(s) == Max(LastIndexOf(s, "}"), LastIndexOf(s, "]"))

BeginsWithOpener(s) == StartsWith(s, <<"{">>) \/ StartsWith(s, <<"[">>)

\* The text has a first opener and its last closer comes after it.
HasSpan(s) == FirstOpener(s) # -1 /\ LastCloser(s) > FirstOpener(s)

\* From the first opener to the last closer, both included.
OuterSpan(s) == Substring(s, FirstOpener(s), LastCloser(s) + 1)

\* The extractor has run on a text and handed jsonText to the parser.
HandedOver == pstage \in {"extracted", "parsed"} /\ plog[1] = "extract"

\* C27: the extractor hands the trimmed, fence-stripped text over unchanged
\* when that text begins with neither '{' nor '[' and has no span from a first
\* opener to a later last closer; in every other case where the text has such
\* a span, it hands over exactly that span.
C27_SpanOrPassThrough ==
    HandedOver =>
        IF ~BeginsWithOpener(StripFences(text)) /\ ~HasSpan(StripFences(text))
        THEN jsonText = StripFences(text)
        ELSE HasSpan(StripFences(text)) => jsonText = OuterSpan(StripFences(text))

(***************************************************************************)
(* C28: the facade with and without a configured client                    *)
(***************************************************************************)
\* Invocation i starts in this step, and ends in it or is left in flight.
Starts(i) == inv[i].pc = "idle" /\ inv'[i].pc # "idle"

InFlight(i) == inv[i].pc = "awaiting"

\* C28: initializeGemini with null or with the empty string leaves no client
\* and with any other key leaves one; an operation invoked while there is no
\* client ends at once in an ApiKeyNotSetError, which the classifier hands
\* back with its kind, and has issued no upstream call; an operation invoked
\* while there is a client issues its upstream call with that client; and an
\* invocation in flight keeps the client it started with, whatever
\* initializeGemini does meanwhile, and ends with the outcome of its own call.
C28_ClientGate ==
    [][/\ \A k \in ApiKeys : InitializeGemini(k) => (ai'.set <=> k \notin {"null", ""})
       /\ \A i \in Slots :
            /\ (Starts(i) /\ ~ai.set) =>
                  /\ inv'[i].pc = "done"
                  /\ inv'[i].calls = 0
                  /\ inv'[i].out.threw
                  /\ inv'[i].out.err.cls = "ApiKeyNotSetError"
                  /\ KindOf(inv'[i].out.err) = "ApiKeyNotSet"
            /\ (Starts(i) /\ ai.set) =>
                  /\ inv'[i].pc = "awaiting"
                  /\ inv'[i].calls = 1
                  /\ inv'[i].client = ai
            /\ InFlight(i) =>
                  /\ inv'[i].client = inv[i].client
                  /\ inv'[i].pc = "done" =>
                        inv'[i].out = Settle(inv[i].op, inv[i].engine, inv[i].cur,
                                             inv'[i].settled)]_vars

\* The client was reset while an invocation was in flight: that invocation
\* still holds the client it started with, and the invocation made after the
\* reset has ended in an ApiKeyNotSetError without an upstream call.
C28_ResetWhileInFlight ==
    \E i, j \in Slots :
        /\ ~ai.set
        /\ inv[i].pc = "awaiting" /\ inv[i].client.set
        /\ inv[j].pc = "done" /\ inv[j].calls = 0
        /\ inv[j].out.threw /\ inv[j].out.err.cls = "ApiKeyNotSetError"

(***************************************************************************)
(* C30: analyze-all finishes                                               *)
(***************************************************************************)
PendingCalls == { k \in DOMAIN acalls : acalls[k].status = "pending" }

\* The vectors the rounds of handleAnalyzeAll have run.
RunByAnalyzeAll(v) == \E k \in DOMAIN acalls : acalls[k].all /\ acalls[k].title = v.title

VectorsOf(s) == { s.analysisVectors[n] : n \in DOMAIN s.analysisVectors }

\* C30: the flag isAnalyzingAll is set exactly while a handleAnalyzeAll awaits
\* its calls (a second one does not start meanwhile); and once every call has
\* settled and the await has ended, the flag is false, no vector is loading
\* and every vector a round has run holds content or an error message.
C30_AnalyzeAllFinishes ==
    /\ session.isAnalyzingAll <=> AwaitedCalls # {}
    /\ (PendingCalls = {} /\ AwaitedCalls = {}) =>
          /\ ~session.isAnalyzingAll
          /\ \A v \in VectorsOf(session) :
                /\ ~v.isLoading
                /\ RunByAnalyzeAll(v) => (Truthy(v.content) \/ v.error # JNull)

\* Under FairAnalysis: a round whose calls have all settled ends with the flag
\* reset.
SettledRoundEnds ==
    (session.isAnalyzingAll /\ AwaitedCalls \cap PendingCalls = {}) ~> ~session.isAnalyzingAll

(***************************************************************************)
(* C29: the scanner on text that needs no repair, and on its own output    *)
(***************************************************************************)
\* The text is a JSON object or array as JSON.parse accepts it.
IsJsonDocument(s) == JSONParse(s).ok /\ JSONParse(s).val.t \in {"obj", "arr"}

\* C29: the scanner returns a text that is already a JSON object or array
\* unchanged, and applied to the text it returned, whatever it was given, it
\* returns that text unchanged.
C29_ScannerIdempotent ==
    /\ (Len(scan.outputs) >= 1 /\ IsJsonDocument(text)) => scan.outputs[1] = text
    /\ Len(scan.outputs) >= 2 => scan.outputs[2] = scan.outputs[1]
    /\ \A n \in DOMAIN scan.outputs :
          scan.outputs[n] = RepairScan(IF n = 1 THEN text ELSE scan.outputs[n - 1])

\* A JSON object or array with an escaped character in its string went through
\* the scanner twice and came back as it was both times.
C29_ValidKept ==
    /\ Len(scan.outputs) = 2
    /\ IsJsonDocument(text)
    /\ \E k \in DOMAIN text : text[k] = BSLASH
    /\ scan.outputs[1] = text
    /\ scan.outputs[2] = text

====
